---- MODULE Spec2Model ----
(***************************************************************************)
(* TSIG signer, chained response verifier and response context of          *)
(* crates/proto/src/dnssec/tsig.rs; the DNSKEY wire codec and key tag of   *)
(* crates/proto/src/dnssec/rdata/dnskey.rs; the RSA public key of          *)
(* crates/proto/src/dnssec/rsa_public_key.rs; the text forms of DNSKEY,    *)
(* NSEC3PARAM, RecordType and TXT of                                       *)
(* conformance/packages/dns-test/src/record.rs.                            *)
(*                                                                         *)
(* Byte strings are modelled by their structure: a MAC is the record of    *)
(* what was authenticated (algorithm, key, to-be-signed buffer) together   *)
(* with its length in bytes, so two MACs are equal exactly when they were  *)
(* computed over the same input with the same key (an ideal HMAC), and a   *)
(* truncated MAC is the same record with a smaller length.                 *)
(*                                                                         *)
(* u64 values are integers; a value produced by a wrapping subtraction     *)
(* below zero (2^64 - k) is represented by -k, and the unsigned order puts *)
(* every such value above every non-negative one.                          *)
(*                                                                         *)
(* Byte strings of the codecs are sequences of bytes, text is a sequence   *)
(* of characters, and a u32 accumulator is a pair of 16-bit halves.        *)
(***************************************************************************)
EXTENDS Integers, Sequences, FiniteSets, TLC

VARIABLES
    debug,      \* build profile: debug assertions and overflow checks on
    now,        \* the local clock of the caller
    signers,    \* heap of TSignerInner values, indexed by Arc identity
    holders,    \* TSigner handles (clones): each names a heap entry
    built,      \* per heap entry, the arguments TSigner::new was called with
    msg,        \* the message on the wire (signed query or response)
    edits,      \* fields of msg changed since it was signed
    verifier,   \* state captured by the closure of MessageSigner::sign_message
    accepted,   \* responses the closure accepted, in order
    ctx,        \* TSigResponseContext
    rsigner,    \* the boxed ResponseSigner the context was consumed into
    out         \* what the last operation returned

vars == <<debug, now, signers, holders, built, msg, edits, verifier,
          accepted, ctx, rsigner, out>>

-----------------------------------------------------------------------------
(* Bounds of the model *)

MaxTime == 3
MaxFudge == 2
MaxAccepted == 2
MaxEdits == 2
MaxHolders == 2
MaxSigners == 1

Times == 0..MaxTime
Fudges == 0..MaxFudge
Keys == {"k1", "k2"}
Bodies == {"q1", "q2"}
Ids == {7, 9}

-----------------------------------------------------------------------------
(* Option, Name, TsigAlgorithm *)

None == [some |-> FALSE]
Some(x) == [some |-> TRUE, val |-> x]

Labels == {"key", "KEY", "other"}
Names == [label : Labels, fqdn : BOOLEAN]

Lower(l) == IF l = "KEY" THEN "key" ELSE l

\* Name equality compares labels without regard to ASCII case
NameEq(a, b) == Lower(a.label) = Lower(b.label) /\ a.fqdn = b.fqdn

set_fqdn(name, val) == [name EXCEPT !.fqdn = val]

Algorithms == {"HmacSha256", "HmacSha512", "HmacMd5"}

supported(algorithm) == algorithm \in {"HmacSha256", "HmacSha512"}

output_len(algorithm) ==
    CASE algorithm = "HmacSha256" -> 32
      [] algorithm = "HmacSha512" -> 64
      [] OTHER -> 16

EmptyMac == [val |-> <<>>, len |-> 0]

\* HMAC of tbs under key: determined by, and determining, its inputs
mac_data(algorithm, key, tbs) ==
    [val |-> <<algorithm, key, tbs>>, len |-> output_len(algorithm)]

\* the first n bytes of a MAC
Truncate(mac, n) == IF n = 0 THEN EmptyMac ELSE [mac EXCEPT !.len = n]

verify_mac(algorithm, key, tbv, tag) ==
    IF tag = mac_data(algorithm, key, tbv) THEN "Ok" ELSE "HmacInvalid"

-----------------------------------------------------------------------------
(* u64 arithmetic *)

ULt(a, b) ==
    IF a >= 0 /\ b >= 0 THEN a < b
    ELSE IF a >= 0 THEN TRUE
    ELSE IF b >= 0 THEN FALSE
    ELSE a < b

ULe(a, b) == a = b \/ ULt(a, b)

\* a - b on u64 values a, b >= 0: x is the difference, panic tells that the
\* overflow check of a debug build fired
USub(a, b, checks) ==
    IF a >= b THEN [panic |-> FALSE, x |-> a - b]
    ELSE IF checks THEN [panic |-> TRUE, x |-> 0]
    ELSE [panic |-> FALSE, x |-> a - b]

Range(start, end) == [start |-> start, end |-> end]

contains(range, x) == ULe(range.start, x) /\ ULt(x, range.end)

-----------------------------------------------------------------------------
(* TSIG rdata and the to-be-signed buffers (rdata/tsig.rs) *)

Errors == {"NoError", "BadSig", "BadKey", "BadTime"}

TSIG_new(algorithm, time, fudge, mac, oid, error, other) ==
    [algorithm |-> algorithm, time |-> time, fudge |-> fudge, mac |-> mac,
     oid |-> oid, error |-> error, other |-> other]

\* TSIG::stub: the signer's algorithm and fudge, no MAC, no error
TSIG_stub(oid, time, signer) ==
    TSIG_new(signer.algorithm, time, signer.fudge, EmptyMac, oid, "NoError", <<>>)

set_mac(tsig, mac) == [tsig EXCEPT !.mac = mac]

set_error(tsig, error) == [tsig EXCEPT !.error = error]

make_tsig_record(name, rdata) == [name |-> name, rdata |-> rdata]

\* the TSIG variables covered by a MAC: owner name (uncompressed), algorithm,
\* time, fudge, error and other data; neither MAC nor original id
emit_tsig_for_mac(tsig, key_name) ==
    [full |-> TRUE, name |-> key_name.label, algorithm |-> tsig.algorithm,
     time |-> tsig.time, fudge |-> tsig.fudge, error |-> tsig.error,
     other |-> tsig.other]

\* what a MAC covers of the TSIG RR of a message that continues a stream
emit_timers(tsig) ==
    [full |-> FALSE, name |-> "", algorithm |-> "", time |-> tsig.time,
     fudge |-> tsig.fudge, error |-> "", other |-> <<>>]

\* a MAC behind its 16-bit length
emit_prefixed(mac) == [len |-> mac.len % 65536, mac |-> mac]

\* an encoded message without its TSIG RR: header (id) and sections (body)
Encoded(id, body) == [id |-> id, body |-> body]

Tbs(prev, encoded, tsigvars) == [prev |-> prev, msg |-> encoded, tsig |-> tsigvars]

Unsigned(id, body) == [id |-> id, body |-> body, sig |-> None]

\* message_tbs: the message, then the TSIG variables of the stub
message_tbs(message, pre_tsig, key_name) ==
    Tbs(None, Encoded(message.id, message.body), emit_tsig_for_mac(pre_tsig, key_name))

\* signed_bitmessage_to_buf: split the TSIG RR off the message, put the
\* original id back in the header, and rebuild what the MAC covers
signed_bitmessage_to_buf(message, previous_hash, first_message) ==
    IF ~message.sig.some
    THEN [ok |-> FALSE, err |-> "NoTsig"]
    ELSE LET sig == message.sig.val
             tsig == sig.rdata
         IN  [ok |-> TRUE,
              tbv |-> Tbs(IF previous_hash.some
                            THEN Some(emit_prefixed(previous_hash.val))
                            ELSE None,
                          Encoded(tsig.oid, message.body),
                          IF first_message
                            THEN emit_tsig_for_mac(tsig, sig.name)
                            ELSE emit_timers(tsig)),
              record |-> sig]

-----------------------------------------------------------------------------
(* TSigner *)

TSignerInner(key, algorithm, signer_name, fudge) ==
    [key |-> key, algorithm |-> algorithm, signer_name |-> signer_name,
     fudge |-> fudge]

\* mutant: the algorithm is not validated
TSigner_new_unvalidated(key, algorithm, signer_name, fudge) ==
    [ok |-> TRUE,
     inner |-> TSignerInner(key, algorithm, set_fqdn(signer_name, TRUE), fudge)]

TSigner_new(key, algorithm, signer_name, fudge) ==
    IF ~supported(algorithm)
    THEN [ok |-> FALSE, err |-> "TsigUnsupportedMacAlgorithm"]
    ELSE [ok |-> TRUE,
          inner |-> TSignerInner(key, algorithm, set_fqdn(signer_name, TRUE), fudge)]

TSigner_key(self) == self.key
TSigner_algorithm(self) == self.algorithm
TSigner_signer_name(self) == self.signer_name
TSigner_fudge(self) == self.fudge

sign(self, tbs) == mac_data(self.algorithm, self.key, tbs)

sign_message(self, message, pre_tsig) ==
    sign(self, message_tbs(message, pre_tsig, self.signer_name))

\* mutant: the tag is not compared
verify_unchecked(self, tbv, tag) == "Ok"

verify(self, tbv, tag) == verify_mac(self.algorithm, self.key, tbv, tag)

Err(e) == [kind |-> "Err", err |-> e]
Panic == [kind |-> "Panic"]
Ok(mac, time, range) ==
    [kind |-> "Ok", mac |-> mac, time |-> time, range |-> range]

\* mutant: the MAC length is examined before the key
verify_message_byte_len_first(self, message, previous_hash, first_message) ==
    LET r == signed_bitmessage_to_buf(message, previous_hash, first_message) IN
    IF ~r.ok THEN Err(r.err)
    ELSE
    LET record == r.record
        tsig == record.rdata
    IN
    IF tsig.mac.len < output_len(tsig.algorithm)
    THEN Err("TruncatedMac")
    ELSE IF ~NameEq(record.name, self.signer_name) \/ tsig.algorithm # self.algorithm
    THEN Err("TsigWrongKey")
    ELSE IF verify(self, r.tbv, tsig.mac) # "Ok"
    THEN Err("HmacInvalid")
    ELSE
    LET start == USub(tsig.time, tsig.fudge, debug) IN
    IF start.panic THEN Panic
    ELSE Ok(tsig.mac, tsig.time, Range(start.x, tsig.time + tsig.fudge))

\* mutant: no refusal of short MACs, the MAC comparison decides
verify_message_byte_no_len(self, message, previous_hash, first_message) ==
    LET r == signed_bitmessage_to_buf(message, previous_hash, first_message) IN
    IF ~r.ok THEN Err(r.err)
    ELSE
    LET record == r.record
        tsig == record.rdata
    IN
    IF ~NameEq(record.name, self.signer_name) \/ tsig.algorithm # self.algorithm
    THEN Err("TsigWrongKey")
    ELSE IF verify(self, r.tbv, tsig.mac) # "Ok"
    THEN Err("HmacInvalid")
    ELSE
    LET start == USub(tsig.time, tsig.fudge, debug) IN
    IF start.panic THEN Panic
    ELSE Ok(tsig.mac, tsig.time, Range(start.x, tsig.time + tsig.fudge))

verify_message_byte(self, message, previous_hash, first_message) ==
    LET r == signed_bitmessage_to_buf(message, previous_hash, first_message) IN
    IF ~r.ok THEN Err(r.err)
    ELSE
    LET record == r.record
        tsig == record.rdata
    IN
    \* 1.  Check key
    IF ~NameEq(record.name, self.signer_name) \/ tsig.algorithm # self.algorithm
    THEN Err("TsigWrongKey")
    \* 2.  Check MAC
    ELSE IF tsig.mac.len < output_len(tsig.algorithm)
    THEN Err("TruncatedMac")
    ELSE IF verify(self, r.tbv, tsig.mac) # "Ok"
    THEN Err("HmacInvalid")
    ELSE
    LET start == USub(tsig.time, tsig.fudge, debug) IN
    IF start.panic THEN Panic
    ELSE Ok(tsig.mac, tsig.time, Range(start.x, tsig.time + tsig.fudge))

\* mutant: the length of the previous MAC is written in one byte
encode_response_tbs_u8_len(self, previous_mac, encoded_response, stub_tsig) ==
    Tbs(Some([len |-> previous_mac.len % 256, mac |-> previous_mac]),
        encoded_response, emit_tsig_for_mac(stub_tsig, self.signer_name))

\* the debug_assert! on the length of previous_mac holds for every MAC of at
\* most 65535 bytes, the only ones the model supplies
encode_response_tbs(self, previous_mac, encoded_response, stub_tsig) ==
    Tbs(Some(emit_prefixed(previous_mac)), encoded_response,
        emit_tsig_for_mac(stub_tsig, self.signer_name))

-----------------------------------------------------------------------------
(* MessageSigner::sign_message and the verifier closure *)

NoVerifier == [set |-> FALSE]

\* <TSigner as MessageSigner>::sign_message: the TSIG RR for the message
\* and the state the verifier closure captures
MessageSigner_sign_message(i, message, current_time) ==
    LET self == signers[i]
        pre_tsig == TSIG_stub(message.id, current_time, self)
        signature == sign_message(self, message, pre_tsig)
        tsig == make_tsig_record(self.signer_name, set_mac(pre_tsig, signature))
    IN  [sig |-> tsig,
         verifier |-> [set |-> TRUE, self2 |-> i, signature |-> signature,
                       remote_time |-> 0, current_time |-> current_time]]

\* mutant: every response is verified as the first of the stream
verifier_call_always_first(v, dns_response) ==
    LET prev == Some(v.signature)
        first == TRUE
        res == verify_message_byte(signers[v.self2], dns_response, prev, first)
        call == [prev |-> prev, first |-> first, res |-> res]
    IN  IF res.kind = "Panic"
        THEN [next |-> v, verdict |-> "Panic", call |-> call]
        ELSE IF res.kind = "Err"
        THEN [next |-> v, verdict |-> res.err, call |-> call]
        ELSE IF res.time >= v.remote_time /\ contains(res.range, v.current_time)
        THEN [next |-> [v EXCEPT !.signature = res.mac, !.remote_time = res.time],
              verdict |-> "Accepted", call |-> call]
        ELSE [next |-> v, verdict |-> "outdated response", call |-> call]

\* mutant: the MAC and the time are stored before the response is judged
verifier_call_stores_first(v, dns_response) ==
    LET prev == Some(v.signature)
        first == (v.remote_time = 0)
        res == verify_message_byte(signers[v.self2], dns_response, prev, first)
        call == [prev |-> prev, first |-> first, res |-> res]
        stored == [v EXCEPT !.signature = res.mac, !.remote_time = res.time]
    IN  IF res.kind = "Panic"
        THEN [next |-> v, verdict |-> "Panic", call |-> call]
        ELSE IF res.kind = "Err"
        THEN [next |-> v, verdict |-> res.err, call |-> call]
        ELSE IF res.time >= v.remote_time /\ contains(res.range, v.current_time)
        THEN [next |-> stored, verdict |-> "Accepted", call |-> call]
        ELSE [next |-> stored, verdict |-> "outdated response", call |-> call]

\* mutant: the time of the last accepted response is not compared
verifier_call_no_order(v, dns_response) ==
    LET prev == Some(v.signature)
        first == (v.remote_time = 0)
        res == verify_message_byte(signers[v.self2], dns_response, prev, first)
        call == [prev |-> prev, first |-> first, res |-> res]
    IN  IF res.kind = "Panic"
        THEN [next |-> v, verdict |-> "Panic", call |-> call]
        ELSE IF res.kind = "Err"
        THEN [next |-> v, verdict |-> res.err, call |-> call]
        ELSE IF contains(res.range, v.current_time)
        THEN [next |-> [v EXCEPT !.signature = res.mac, !.remote_time = res.time],
              verdict |-> "Accepted", call |-> call]
        ELSE [next |-> v, verdict |-> "outdated response", call |-> call]

\* mutant: an accepted response does not replace the stored MAC
verifier_call_keeps_mac(v, dns_response) ==
    LET prev == Some(v.signature)
        first == (v.remote_time = 0)
        res == verify_message_byte(signers[v.self2], dns_response, prev, first)
        call == [prev |-> prev, first |-> first, res |-> res]
    IN  IF res.kind = "Panic"
        THEN [next |-> v, verdict |-> "Panic", call |-> call]
        ELSE IF res.kind = "Err"
        THEN [next |-> v, verdict |-> res.err, call |-> call]
        ELSE IF res.time >= v.remote_time /\ contains(res.range, v.current_time)
        THEN [next |-> [v EXCEPT !.remote_time = res.time],
              verdict |-> "Accepted", call |-> call]
        ELSE [next |-> v, verdict |-> "outdated response", call |-> call]

\* one call of the verifier closure v on the buffer dns_response
verifier_call(v, dns_response) ==
    LET prev == Some(v.signature)
        first == (v.remote_time = 0)
        res == verify_message_byte(signers[v.self2], dns_response, prev, first)
        call == [prev |-> prev, first |-> first, res |-> res]
    IN  IF res.kind = "Panic"
        THEN [next |-> v, verdict |-> "Panic", call |-> call]
        ELSE IF res.kind = "Err"
        THEN [next |-> v, verdict |-> res.err, call |-> call]
        ELSE IF res.time >= v.remote_time /\ contains(res.range, v.current_time)
        THEN [next |-> [v EXCEPT !.signature = res.mac, !.remote_time = res.time],
              verdict |-> "Accepted", call |-> call]
        ELSE [next |-> v, verdict |-> "outdated response", call |-> call]

-----------------------------------------------------------------------------
(* Actions *)

NoOut == [op |-> "none"]

\* the caller's clock advances
Tick ==
    /\ now < MaxTime
    /\ now' = now + 1
    /\ UNCHANGED <<debug, signers, holders, built, msg, edits, verifier,
                   accepted, ctx, rsigner, out>>

\* Message::finalize: holder h signs the query (id, body) at the local time
\* and keeps the verifier for the responses
SignMessage(h, id, body) ==
    /\ h \in DOMAIN holders
    /\ LET r == MessageSigner_sign_message(holders[h], Unsigned(id, body), now)
       IN  /\ msg' = [id |-> id, body |-> body, sig |-> Some(r.sig)]
           /\ verifier' = r.verifier
           /\ out' = [op |-> "sign_message", h |-> h, sig |-> r.sig]
    /\ edits' = {}
    /\ accepted' = <<>>
    /\ UNCHANGED <<debug, now, signers, holders, built, ctx, rsigner>>

OtherOf(x, S) == CHOOSE y \in S : y # x

\* the bytes of one field of the message on the wire are changed in transit
Tamper(field) ==
    /\ msg.sig.some
    /\ field \notin edits
    /\ Cardinality(edits) < MaxEdits
    /\ edits' = edits \cup {field}
    /\ LET sig == msg.sig.val
           tsig == sig.rdata
           retsig(t) == [msg EXCEPT !.sig = Some([sig EXCEPT !.rdata = t])]
       IN  \/ field = "id" /\ msg' = [msg EXCEPT !.id = OtherOf(msg.id, Ids)]
           \/ field = "body" /\ msg' = [msg EXCEPT !.body = OtherOf(msg.body, Bodies)]
           \/ field = "name" /\ sig.name.label # "other"
                /\ msg' = [msg EXCEPT !.sig = Some([sig EXCEPT !.name.label = "other"])]
           \/ field = "algorithm"
                /\ msg' = retsig([tsig EXCEPT !.algorithm =
                                    OtherOf(tsig.algorithm, {"HmacSha256", "HmacSha512"})])
           \/ field = "time" /\ \E t \in Times \ {tsig.time} :
                                  msg' = retsig([tsig EXCEPT !.time = t])
           \/ field = "fudge" /\ \E f \in Fudges \ {tsig.fudge} :
                                  msg' = retsig([tsig EXCEPT !.fudge = f])
           \/ field = "oid" /\ msg' = retsig([tsig EXCEPT !.oid = OtherOf(tsig.oid, Ids)])
           \/ field = "error" /\ msg' = retsig([tsig EXCEPT !.error =
                                                  OtherOf(tsig.error, {"NoError", "BadTime"})])
           \/ field = "mac" /\ tsig.mac.len > 0
                /\ msg' = retsig([tsig EXCEPT !.mac.val = <<"changed">>])
           \/ field = "maclen" /\ tsig.mac.len > 0
                /\ msg' = retsig([tsig EXCEPT !.mac = Truncate(tsig.mac, tsig.mac.len - 1)])
    /\ out' = [op |-> "tamper", field |-> field]
    /\ UNCHANGED <<debug, now, signers, holders, built, verifier, accepted,
                   ctx, rsigner>>

Fields == {"id", "body", "name", "algorithm", "time", "fudge", "oid", "error",
           "mac", "maclen"}

\* holder h calls verify_message_byte(msg, None, true)
VerifyMessage(h) ==
    /\ h \in DOMAIN holders
    /\ out' = [op |-> "verify_message_byte", h |-> h,
               res |-> verify_message_byte(signers[holders[h]], msg, None, TRUE)]
    /\ UNCHANGED <<debug, now, signers, holders, built, msg, edits, verifier,
                   accepted, ctx, rsigner>>

\* a response (id, body) as a server holding the signer `server` signs it at
\* time ts over the previous MAC: the first of a stream with all TSIG
\* variables (TSigResponseSigner::sign), a later one with the timers only
Response(server, id, body, ts, prev, first) ==
    LET stub == TSIG_stub(id, ts, server)
        tbs == IF first
               THEN encode_response_tbs(server, prev, Encoded(id, body), stub)
               ELSE Tbs(Some(emit_prefixed(prev)), Encoded(id, body), emit_timers(stub))
    IN  [id |-> id, body |-> body,
         sig |-> Some(make_tsig_record(server.signer_name,
                                       set_mac(stub, sign(server, tbs))))]

\* the verifier closure is called with the response buffer dns_response
CallVerifier(dns_response) ==
    /\ verifier.set
    /\ Len(accepted) < MaxAccepted
    /\ LET r == verifier_call(verifier, dns_response) IN
       /\ verifier' = r.next
       /\ accepted' = IF r.verdict = "Accepted"
                      THEN Append(accepted, [time |-> dns_response.sig.val.rdata.time,
                                             mac |-> dns_response.sig.val.rdata.mac])
                      ELSE accepted
       /\ out' = [op |-> "verifier", verdict |-> r.verdict, call |-> r.call]
    /\ UNCHANGED <<debug, now, signers, holders, built, msg, edits, ctx, rsigner>>

\* the responses that may arrive for the query on the wire
Arrives ==
    /\ verifier.set
    /\ LET self == signers[verifier.self2]
           first == (accepted = <<>>)
           reply(server, ts, prev, f) == Response(server, msg.id, "q1", ts, prev, f)
       IN
       \* from a peer holding the key, with its own fudge, signed at any
       \* time over the last accepted MAC, as the first or as a later
       \* message of the stream
       \/ \E fudge \in Fudges, ts \in Times, f \in BOOLEAN :
             CallVerifier(reply([self EXCEPT !.fudge = fudge], ts,
                                verifier.signature, f))
       \* signed over the MAC of the query once a response was accepted
       \/ \E ts \in Times :
             /\ ~first
             /\ CallVerifier(reply(self, ts, msg.sig.val.rdata.mac, TRUE))
       \* from a peer holding another key, or the key under another name
       \/ \E ts \in Times :
             CallVerifier(reply([self EXCEPT !.key = OtherOf(self.key, Keys)], ts,
                                verifier.signature, first))
       \/ \E ts \in Times :
             CallVerifier(reply([self EXCEPT !.signer_name.label = "other"], ts,
                                verifier.signature, first))
       \* with the MAC cut short by one byte
       \/ \E ts \in Times :
             LET whole == reply(self, ts, verifier.signature, first)
                 mac == whole.sig.val.rdata.mac
             IN  CallVerifier([whole EXCEPT !.sig.val.rdata.mac =
                                              Truncate(mac, mac.len - 1)])

\* TSigner::new(key, algorithm, signer_name, fudge)
New(key, algorithm, signer_name, fudge) ==
    /\ Len(signers) < MaxSigners
    /\ Len(holders) < MaxHolders
    /\ LET r == TSigner_new(key, algorithm, signer_name, fudge)
           args == [key |-> key, algorithm |-> algorithm,
                    signer_name |-> signer_name, fudge |-> fudge]
       IN  IF r.ok
           THEN /\ signers' = Append(signers, r.inner)
                /\ built' = Append(built, args)
                /\ holders' = Append(holders, Len(signers) + 1)
                /\ out' = [op |-> "new", args |-> args, ok |-> TRUE,
                           h |-> Len(holders) + 1]
           ELSE /\ UNCHANGED <<signers, built, holders>>
                /\ out' = [op |-> "new", args |-> args, ok |-> FALSE, err |-> r.err]
    /\ UNCHANGED <<debug, now, msg, edits, verifier, accepted, ctx, rsigner>>

\* mutant: the clone is a signer of its own, rebuilt with no fudge
Clone_rebuilt(h) ==
    /\ h \in DOMAIN holders
    /\ Len(holders) < MaxHolders
    /\ signers' = Append(signers, [signers[holders[h]] EXCEPT !.fudge = 0])
    /\ built' = Append(built, built[holders[h]])
    /\ holders' = Append(holders, Len(signers) + 1)
    /\ out' = [op |-> "clone", h |-> Len(holders) + 1]
    /\ UNCHANGED <<debug, now, msg, edits, verifier, accepted, ctx, rsigner>>

\* <TSigner as Clone>::clone: one more handle on the same TSignerInner
Clone(h) ==
    /\ h \in DOMAIN holders
    /\ Len(holders) < MaxHolders
    /\ holders' = Append(holders, holders[h])
    /\ out' = [op |-> "clone", h |-> Len(holders) + 1]
    /\ UNCHANGED <<debug, now, signers, built, msg, edits, verifier, accepted,
                   ctx, rsigner>>

\* holder h reads key(), algorithm(), signer_name() and fudge()
Access(h) ==
    /\ h \in DOMAIN holders
    /\ LET self == signers[holders[h]] IN
       out' = [op |-> "access", h |-> h, key |-> TSigner_key(self),
               algorithm |-> TSigner_algorithm(self),
               signer_name |-> TSigner_signer_name(self),
               fudge |-> TSigner_fudge(self)]
    /\ UNCHANGED <<debug, now, signers, holders, built, msg, edits, verifier,
                   accepted, ctx, rsigner>>

\* holder h calls sign(tbs) on the to-be-signed bytes of an unsigned query
Sign(h, id, body) ==
    /\ h \in DOMAIN holders
    /\ LET self == signers[holders[h]]
           tbs == message_tbs(Unsigned(id, body), TSIG_stub(id, now, self),
                              self.signer_name)
       IN  out' = [op |-> "sign", h |-> h, mac |-> sign(self, tbs)]
    /\ UNCHANGED <<debug, now, signers, holders, built, msg, edits, verifier,
                   accepted, ctx, rsigner>>

\* holder h calls verify(tbv, tag) with the tag of the message on the wire
\* over the bytes of a query
Verify(h, id, body) ==
    /\ h \in DOMAIN holders
    /\ msg.sig.some
    /\ LET self == signers[holders[h]]
           tbv == message_tbs(Unsigned(id, body), TSIG_stub(id, now, self),
                              self.signer_name)
       IN  out' = [op |-> "verify", h |-> h,
                   res |-> verify(self, tbv, msg.sig.val.rdata.mac)]
    /\ UNCHANGED <<debug, now, signers, holders, built, msg, edits, verifier,
                   accepted, ctx, rsigner>>

\* holder h calls encode_response_tbs for a response to the message on the
\* wire
EncodeResponseTbs(h, body) ==
    /\ h \in DOMAIN holders
    /\ msg.sig.some
    /\ LET self == signers[holders[h]] IN
       out' = [op |-> "encode_response_tbs", h |-> h,
               tbs |-> encode_response_tbs(self, msg.sig.val.rdata.mac,
                                           Encoded(msg.id, body),
                                           TSIG_stub(msg.id, now, self))]
    /\ UNCHANGED <<debug, now, signers, holders, built, msg, edits, verifier,
                   accepted, ctx, rsigner>>

-----------------------------------------------------------------------------
(* TSigResponseContext and the response signers *)

TSigResponseContext_new(request_id, time) ==
    [state |-> "open", request_id |-> request_id, time |-> time]

\* TSigResponseContext::sign: error is None or Some(TsigError)
TSigResponseContext_sign(self, req_sig, error, signer) ==
    [kind |-> "TSigResponseSigner", signer |-> signer, time |-> self.time,
     error |-> error, request_id |-> self.request_id, request_mac |-> req_sig.mac]

TSigResponseContext_bad_signature(self, signer) ==
    [kind |-> "BadSignatureSigner", signer |-> signer,
     request_id |-> self.request_id, time |-> self.time]

TSigResponseContext_unknown_key(self, key_name) ==
    [kind |-> "UnknownKeySigner", time |-> self.time, key_name |-> key_name,
     request_id |-> self.request_id]

Signed(record) == [kind |-> "Ok", sig |-> record]

\* <TSigResponseSigner as ResponseSigner>::sign; the debug_assert! is
\* compiled into debug builds only
TSigResponseSigner_sign(self, response) ==
    IF debug /\ self.error.some /\ self.error.val \in {"BadSig", "BadKey"}
    THEN Panic
    ELSE
    LET signer == signers[self.signer]
        stub == TSIG_stub(self.request_id, self.time, signer)
        stub_tsig == IF self.error.some THEN set_error(stub, self.error.val) ELSE stub
        tbs_tsig_encoded ==
            encode_response_tbs(signer, self.request_mac, response, stub_tsig)
        resp_tsig == set_mac(stub_tsig, sign(signer, tbs_tsig_encoded))
    IN  Signed(make_tsig_record(signer.signer_name, resp_tsig))

\* mutant: the response is signed with the key of the signer
BadSignatureSigner_sign_with_mac(self, response) ==
    LET signer == signers[self.signer]
        stub_tsig == set_error(TSIG_stub(self.request_id, self.time, signer), "BadSig")
    IN  Signed(make_tsig_record(signer.signer_name,
                                set_mac(stub_tsig, sign(signer, response))))

BadSignatureSigner_sign(self, response) ==
    LET signer == signers[self.signer]
        stub_tsig == set_error(TSIG_stub(self.request_id, self.time, signer), "BadSig")
    IN  Signed(make_tsig_record(signer.signer_name, stub_tsig))

\* mutant: the stand-in algorithm is HMAC-SHA512
UnknownKeySigner_sign_sha512(self, response) ==
    Signed(make_tsig_record(self.key_name,
                            TSIG_new("HmacSha512", self.time, 300, EmptyMac,
                                     self.request_id, "BadKey", <<>>)))

UnknownKeySigner_sign(self, response) ==
    Signed(make_tsig_record(self.key_name,
                            TSIG_new("HmacSha256", self.time, 300, EmptyMac,
                                     self.request_id, "BadKey", <<>>)))

ResponseSigner_sign(self, response) ==
    CASE self.kind = "TSigResponseSigner" -> TSigResponseSigner_sign(self, response)
      [] self.kind = "BadSignatureSigner" -> BadSignatureSigner_sign(self, response)
      [] self.kind = "UnknownKeySigner" -> UnknownKeySigner_sign(self, response)

\* TSigResponseContext::new(request_id, time) for a request validated now
CtxNew(request_id) ==
    /\ ctx.state = "none"
    /\ ctx' = TSigResponseContext_new(request_id, now)
    /\ out' = [op |-> "ctx_new"]
    /\ UNCHANGED <<debug, now, signers, holders, built, msg, edits, verifier,
                   accepted, rsigner>>

\* the context is consumed by sign(req_sig, error, signer), the signer
\* being the handle h
CtxSign(req_sig, error, h) ==
    /\ ctx.state = "open"
    /\ h \in DOMAIN holders
    /\ rsigner' = TSigResponseContext_sign(ctx, req_sig, error, holders[h])
    /\ ctx' = [state |-> "none"]
    /\ out' = [op |-> "ctx_sign", h |-> h]
    /\ UNCHANGED <<debug, now, signers, holders, built, msg, edits, verifier,
                   accepted>>

\* mutant: the context is copied, not moved, and stays open
CtxBadSignature_copied(h) ==
    /\ ctx.state = "open"
    /\ h \in DOMAIN holders
    /\ rsigner' = TSigResponseContext_bad_signature(ctx, holders[h])
    /\ out' = [op |-> "ctx_bad_signature", h |-> h]
    /\ UNCHANGED <<debug, now, signers, holders, built, msg, edits, verifier,
                   accepted, ctx>>

CtxBadSignature(h) ==
    /\ ctx.state = "open"
    /\ h \in DOMAIN holders
    /\ rsigner' = TSigResponseContext_bad_signature(ctx, holders[h])
    /\ ctx' = [state |-> "none"]
    /\ out' = [op |-> "ctx_bad_signature", h |-> h]
    /\ UNCHANGED <<debug, now, signers, holders, built, msg, edits, verifier,
                   accepted>>

CtxUnknownKey(key_name) ==
    /\ ctx.state = "open"
    /\ rsigner' = TSigResponseContext_unknown_key(ctx, key_name)
    /\ ctx' = [state |-> "none"]
    /\ out' = [op |-> "ctx_unknown_key"]
    /\ UNCHANGED <<debug, now, signers, holders, built, msg, edits, verifier,
                   accepted>>

\* the boxed response signer signs the encoded response and is gone
RSign(response) ==
    /\ rsigner.kind # "none"
    /\ out' = [op |-> "response_sign", by |-> rsigner, arg |-> response,
               res |-> ResponseSigner_sign(rsigner, response)]
    /\ rsigner' = [kind |-> "none"]
    /\ UNCHANGED <<debug, now, signers, holders, built, msg, edits, verifier,
                   accepted, ctx>>

-----------------------------------------------------------------------------
(* Specifications *)

NoCtx == [state |-> "none"]
NoRSigner == [kind |-> "none"]
NoMsg == Unsigned(7, "q1")

CtorArgs(key, algorithm, signer_name, fudge) ==
    [key |-> key, algorithm |-> algorithm, signer_name |-> signer_name,
     fudge |-> fudge]

\* one signer, successfully constructed, held by one handle
OneSigner(keys, algorithms, names, fudges) ==
    \E key \in keys, algorithm \in algorithms, name \in names, fudge \in fudges :
        LET r == TSigner_new(key, algorithm, name, fudge) IN
        /\ r.ok
        /\ signers = <<r.inner>>
        /\ built = <<CtorArgs(key, algorithm, name, fudge)>>
        /\ holders = <<1>>

Idle ==
    /\ msg = NoMsg
    /\ edits = {}
    /\ verifier = NoVerifier
    /\ accepted = <<>>
    /\ ctx = NoCtx
    /\ rsigner = NoRSigner
    /\ out = NoOut

\* verify_message_byte on signed messages, intact or changed in transit
InitVerify ==
    /\ debug \in BOOLEAN
    /\ now \in Times
    /\ OneSigner(Keys, Algorithms, {[label |-> "key", fqdn |-> FALSE]}, Fudges)
    /\ Idle

NextVerify ==
    \/ SignMessage(1, 7, "q1")
    \/ \E field \in Fields : Tamper(field)
    \/ VerifyMessage(1)

SpecVerify == InitVerify /\ [][NextVerify]_vars

-----------------------------------------------------------------------------
(* Properties of verify_message_byte, under SpecVerify *)

\* the last operation verified the message now on the wire
Verified == out.op = "verify_message_byte" /\ msg.sig.some

VSigner == signers[holders[out.h]]
VTsig == msg.sig.val.rdata

\* times against which a returned range is probed
Probes == 0..(MaxTime + MaxFudge + 1)

\* C4: a message signed by S at time t verifies under S with
\* (bytes, None, true): the result is Ok, time_signed is t, and the returned
\* range holds exactly the times x with t - fudge <= x <= t + fudge.
C4_SignedVerifiesWithInclusiveRange ==
    (Verified /\ edits = {}) =>
        /\ out.res.kind = "Ok"
        /\ out.res.time = VTsig.time
        /\ \A x \in Probes :
              contains(out.res.range, x) <=>
                 (VTsig.time - VSigner.fudge <= x /\ x <= VTsig.time + VSigner.fudge)

WrongKey ==
    \/ ~NameEq(msg.sig.val.name, VSigner.signer_name)
    \/ VTsig.algorithm # VSigner.algorithm

\* C5: a message whose TSIG owner name or algorithm is not the signer's is
\* refused with TsigWrongKey, whatever the length and value of its MAC.
C5_WrongKeyDecidedFirst ==
    (Verified /\ WrongKey) => out.res = Err("TsigWrongKey")

\* C5 witness: a message under another key name whose MAC is also
\* shortened was verified and refused with TsigWrongKey
C5_Witness ==
    /\ Verified
    /\ edits = {"name", "maclen"}
    /\ out.res = Err("TsigWrongKey")

ShortMac == VTsig.mac.len < output_len(VTsig.algorithm)

\* C6: a message whose MAC is shorter than the algorithm's output yields no
\* (mac, time, range) result; when key name and algorithm are the signer's
\* it is refused for its length, before any MAC comparison.
C6_TruncatedMacRefused ==
    (Verified /\ ShortMac) =>
        /\ out.res.kind = "Err"
        /\ ~WrongKey => out.res = Err("TruncatedMac")

\* C6 witness: the MAC of a signed message, shortened by one byte and
\* otherwise intact (a correct prefix), was refused
C6_Witness ==
    /\ Verified
    /\ edits = {"maclen"}
    /\ VTsig.mac.len = output_len(VTsig.algorithm) - 1
    /\ out.res = Err("TruncatedMac")

-----------------------------------------------------------------------------
(* The verifier closure over a stream of responses *)

InitChain ==
    /\ debug \in BOOLEAN
    /\ now = 0
    /\ OneSigner({"k1"}, {"HmacSha256"}, {[label |-> "key", fqdn |-> FALSE]}, {MaxFudge})
    /\ Idle

NextChain ==
    \/ Tick
    \/ SignMessage(1, 7, "q1")
    \/ Arrives

SpecChain == InitChain /\ [][NextChain]_vars

-----------------------------------------------------------------------------
(* Properties of the verifier closure, under SpecChain *)

\* the last operation was a call of the verifier closure
Called == out.op = "verifier"

\* the responses accepted before the last call of the closure
AcceptedBefore ==
    IF out.verdict = "Accepted"
    THEN SubSeq(accepted, 1, Len(accepted) - 1)
    ELSE accepted

\* C1: a response that verifies and whose time_signed is less than that
\* of the last accepted response is rejected as outdated; an equal
\* time_signed within the range is accepted; the time_signed of the
\* accepted responses never decreases.
C1_AcceptedTimesNonDecreasing ==
    /\ \A i, j \in DOMAIN accepted :
          i < j => accepted[i].time <= accepted[j].time
    /\ (Called /\ out.call.res.kind = "Ok" /\ AcceptedBefore # <<>>) =>
          LET last == AcceptedBefore[Len(AcceptedBefore)].time
              res == out.call.res
          IN  /\ res.time < last => out.verdict = "outdated response"
              /\ (res.time = last /\ contains(res.range, verifier.current_time))
                    => out.verdict = "Accepted"

\* C1 witness: a response that verifies, within its range, signed before
\* the last accepted response, was rejected as outdated
C1_Witness ==
    /\ Called
    /\ accepted # <<>>
    /\ out.call.res.kind = "Ok"
    /\ out.call.res.time < accepted[Len(accepted)].time
    /\ contains(out.call.res.range, verifier.current_time)
    /\ out.verdict = "outdated response"

\* C2: every call verifies against the MAC of the last accepted response,
\* or of the signed query when none was accepted; after an acceptance the
\* stored MAC is the MAC of the accepted response's TSIG RR.
C2_ChainedOverLastAcceptedMac ==
    Called =>
        /\ out.call.prev =
              Some(IF AcceptedBefore = <<>>
                   THEN msg.sig.val.rdata.mac
                   ELSE AcceptedBefore[Len(AcceptedBefore)].mac)
        /\ out.verdict = "Accepted" =>
              verifier.signature = accepted[Len(accepted)].mac

\* C2 witness: a second response was accepted, verified over the MAC of
\* the first
C2_Witness ==
    /\ Called
    /\ out.verdict = "Accepted"
    /\ Len(accepted) = 2
    /\ out.call.prev = Some(accepted[1].mac)
    /\ accepted[1].mac # msg.sig.val.rdata.mac

\* C3: a response is accepted only when the local time at the moment of
\* its verification lies within the range returned for it.
C3_AcceptedWithinRangeAtVerification ==
    [][Len(accepted') > Len(accepted) => contains(out'.call.res.range, now)]_vars

-----------------------------------------------------------------------------
(* Construction of signers *)

InitNew ==
    /\ debug \in BOOLEAN
    /\ now = 0
    /\ signers = <<>>
    /\ built = <<>>
    /\ holders = <<>>
    /\ Idle

NextNew ==
    \/ \E k \in Keys, a \in Algorithms, n \in Names, f \in Fudges : New(k, a, n, f)
    \/ \E h \in DOMAIN holders : Clone(h)
    \/ \E h \in DOMAIN holders : Access(h)

SpecNew == InitNew /\ [][NextNew]_vars

\* C8: TSigner::new with an unsupported algorithm returns
\* TsigUnsupportedMacAlgorithm and creates no signer; with a supported one
\* it returns a signer whose key, algorithm and fudge are the arguments.
C8_NewValidatesAlgorithm ==
    /\ \A i \in DOMAIN signers : supported(built[i].algorithm)
    /\ (out.op = "new" /\ ~supported(out.args.algorithm)) =>
          ~out.ok /\ out.err = "TsigUnsupportedMacAlgorithm"
    /\ (out.op = "new" /\ supported(out.args.algorithm)) =>
          /\ out.ok
          /\ LET self == signers[holders[out.h]] IN
             /\ TSigner_key(self) = out.args.key
             /\ TSigner_algorithm(self) = out.args.algorithm
             /\ TSigner_fudge(self) = out.args.fudge
    /\ out.op = "access" =>
          LET args == built[holders[out.h]] IN
          /\ out.key = args.key
          /\ out.algorithm = args.algorithm
          /\ out.fudge = args.fudge

\* C8 witness: a call with an unsupported algorithm failed and left no
\* signer behind
C8_Witness ==
    /\ out.op = "new"
    /\ ~supported(out.args.algorithm)
    /\ out.err = "TsigUnsupportedMacAlgorithm"
    /\ signers = <<>>

-----------------------------------------------------------------------------
(* One signer shared by several holders *)

InitShare ==
    /\ debug \in BOOLEAN
    /\ now = 0
    /\ OneSigner({"k1"}, {"HmacSha256"}, {[label |-> "key", fqdn |-> FALSE]},
                 {MaxFudge})
    /\ Idle

NextShare ==
    \/ \E h \in DOMAIN holders : Clone(h)
    \/ \E h \in DOMAIN holders : Access(h)
    \/ \E h \in DOMAIN holders : Sign(h, 7, "q1")
    \/ \E h \in DOMAIN holders : Verify(h, 7, "q1")
    \/ \E h \in DOMAIN holders : SignMessage(h, 7, "q1")
    \/ \E h \in DOMAIN holders : VerifyMessage(h)
    \/ \E h \in DOMAIN holders : EncodeResponseTbs(h, "q2")
    \/ Arrives

SpecShare == InitShare /\ [][NextShare]_vars

\* C9: whatever the holders of a signer and of its clones do, each of
\* them finds the key, algorithm, signer name and fudge it was built with.
C9_SignerNeverChanges ==
    /\ \A h \in DOMAIN holders :
          LET self == signers[holders[h]]
              args == built[holders[h]]
          IN  /\ TSigner_key(self) = args.key
              /\ TSigner_algorithm(self) = args.algorithm
              /\ TSigner_signer_name(self) = set_fqdn(args.signer_name, TRUE)
              /\ TSigner_fudge(self) = args.fudge
    /\ out.op = "access" =>
          LET args == built[holders[out.h]] IN
          /\ out.key = args.key
          /\ out.algorithm = args.algorithm
          /\ out.signer_name = set_fqdn(args.signer_name, TRUE)
          /\ out.fudge = args.fudge

\* C9 witness: after a clone was made and the verifier closure accepted a
\* response, the holder of the clone read the signer
C9_Witness ==
    /\ Len(holders) >= 2
    /\ accepted # <<>>
    /\ out.op = "access"
    /\ out.h = 2
    /\ out.fudge = built[holders[2]].fudge

-----------------------------------------------------------------------------
(* Responses to a signed request *)

InitResp ==
    /\ debug \in BOOLEAN
    /\ now \in Times
    /\ OneSigner(Keys, Algorithms, {[label |-> "key", fqdn |-> FALSE]}, Fudges)
    /\ Idle

\* lengths of the request MAC handed to the sign branch
RequestMacLens == {0, 32, 255, 256, 65535}

\* the TSIG RR of the request, carrying a MAC of n bytes
RequestSig(n) == [msg.sig.val.rdata EXCEPT !.mac = Truncate(@, n)]

\* the optional error of the sign branch
OptErrors == {None} \cup {Some(e) : e \in {"BadSig", "BadKey", "BadTime"}}

NextResp ==
    \/ SignMessage(1, 7, "q1")
    \/ \E id \in Ids : CtxNew(id)
    \/ \E e \in OptErrors : msg.sig.some /\ CtxSign(msg.sig.val.rdata, e, 1)
    \/ \E n \in RequestMacLens : msg.sig.some /\ CtxSign(RequestSig(n), None, 1)
    \/ CtxBadSignature(1)
    \/ \E n \in Names : n.fqdn /\ CtxUnknownKey(n)
    \/ \E b \in Bodies : RSign(Encoded(7, b))

SpecResp == InitResp /\ [][NextResp]_vars

\* C10: no response signer obtained from the sign branch returns a TSIG
\* RR with error BadSig or BadKey and a computed MAC.
C10_NoSignedBadSigOrBadKey ==
    (out.op = "response_sign" /\ out.by.kind = "TSigResponseSigner"
        /\ out.res.kind = "Ok") =>
        ~(/\ out.res.sig.rdata.error \in {"BadSig", "BadKey"}
          /\ out.res.sig.rdata.mac # EmptyMac)

-----------------------------------------------------------------------------
(* Properties of the response signers, under SpecResp *)

\* a TSIG RR as the fields it carries
TsigRR(name, algorithm, time, fudge, mac, oid, error, other) ==
    [name |-> name,
     rdata |-> [algorithm |-> algorithm, time |-> time, fudge |-> fudge,
                mac |-> mac, oid |-> oid, error |-> error, other |-> other]]

\* C11: the response signer of bad_signature(signer) holds the time and
\* request id of the context; it returns a TSIG RR with error BadSig, an
\* empty MAC, the owner name and algorithm of the signer, that time and
\* that original id, and the same RR for every response: neither the
\* response nor the key of the signer enters the result.
C11_BadSignatureUnsigned ==
    [][/\ out'.op = "ctx_bad_signature" =>
             /\ rsigner'.kind = "BadSignatureSigner"
             /\ rsigner'.signer = holders[out'.h]
             /\ rsigner'.time = ctx.time
             /\ rsigner'.request_id = ctx.request_id
       /\ (out'.op = "response_sign" /\ rsigner.kind = "BadSignatureSigner") =>
             LET signer == signers[rsigner.signer] IN
             /\ out'.res = Signed(TsigRR(signer.signer_name, signer.algorithm,
                                         rsigner.time, signer.fudge, EmptyMac,
                                         rsigner.request_id, "BadSig", <<>>))
             /\ \A id \in Ids, b \in Bodies :
                   BadSignatureSigner_sign(rsigner, Encoded(id, b)) = out'.res
      ]_vars

\* C11 witness: a bad-signature signer over the second key answered the
\* second response with an unsigned BadSig RR
C11_Witness ==
    /\ out.op = "response_sign"
    /\ out.by.kind = "BadSignatureSigner"
    /\ signers[out.by.signer].key = "k2"
    /\ signers[out.by.signer].algorithm = "HmacSha512"
    /\ out.arg.body = "q2"
    /\ out.res.kind = "Ok"
    /\ out.res.sig.rdata.error = "BadSig"
    /\ out.res.sig.rdata.mac = EmptyMac

\* C12: the response signer of unknown_key(key_name) holds the time and
\* request id of the context; for every response it returns a TSIG RR
\* with error BadKey, empty MAC, empty other data, owner name key_name,
\* algorithm HMAC-SHA256, fudge 300, that time and that original id.
C12_UnknownKeyUnsigned ==
    [][/\ out'.op = "ctx_unknown_key" =>
             /\ rsigner'.kind = "UnknownKeySigner"
             /\ rsigner'.time = ctx.time
             /\ rsigner'.request_id = ctx.request_id
       /\ (out'.op = "response_sign" /\ rsigner.kind = "UnknownKeySigner") =>
             /\ out'.res = Signed(TsigRR(rsigner.key_name, "HmacSha256",
                                         rsigner.time, 300, EmptyMac,
                                         rsigner.request_id, "BadKey", <<>>))
             /\ \A id \in Ids, b \in Bodies :
                   UnknownKeySigner_sign(rsigner, Encoded(id, b)) = out'.res
      ]_vars

\* C12 witness: an unknown-key signer for a name that is not the signer's,
\* under a signer of another algorithm, answered with a BadKey RR
C12_Witness ==
    /\ out.op = "response_sign"
    /\ out.by.kind = "UnknownKeySigner"
    /\ out.by.key_name.label = "other"
    /\ out.by.request_id = 9
    /\ out.by.time > 0
    /\ signers[1].algorithm = "HmacSha512"
    /\ out.res.kind = "Ok"
    /\ out.res.sig.rdata.error = "BadKey"
    /\ out.res.sig.name.label = "other"

\* C13: the response signer of sign(req_sig, error, signer) holds the MAC
\* of req_sig and the time and request id of the context; the MAC of the
\* RR it returns is the signer's HMAC over the length of the request MAC,
\* the request MAC, the encoded response and the TSIG variables of the
\* stub (owner name, algorithm and fudge of the signer, context time, the
\* optional error, no other data); the length written is the length of
\* the request MAC.
C13_SignedOverRequestMacAndResponse ==
    [][/\ out'.op = "ctx_sign" =>
             /\ rsigner'.kind = "TSigResponseSigner"
             /\ rsigner'.signer = holders[out'.h]
             /\ rsigner'.time = ctx.time
             /\ rsigner'.request_id = ctx.request_id
       /\ (/\ out'.op = "response_sign"
           /\ rsigner.kind = "TSigResponseSigner"
           /\ out'.res.kind = "Ok") =>
             LET signer == signers[rsigner.signer]
                 error == IF rsigner.error.some THEN rsigner.error.val
                                                ELSE "NoError"
                 tbs == [prev |-> Some([len |-> rsigner.request_mac.len,
                                        mac |-> rsigner.request_mac]),
                         msg |-> out'.arg,
                         tsig |-> [full |-> TRUE,
                                   name |-> signer.signer_name.label,
                                   algorithm |-> signer.algorithm,
                                   time |-> rsigner.time,
                                   fudge |-> signer.fudge,
                                   error |-> error,
                                   other |-> <<>>]]
             IN  out'.res.sig =
                    TsigRR(signer.signer_name, signer.algorithm, rsigner.time,
                           signer.fudge,
                           mac_data(signer.algorithm, signer.key, tbs),
                           rsigner.request_id, error, <<>>)
      ]_vars

\* C13 witness: a response to a request whose MAC is 65535 bytes long was
\* signed
C13_Witness ==
    /\ out.op = "response_sign"
    /\ out.by.kind = "TSigResponseSigner"
    /\ out.by.request_mac.len = 65535
    /\ out.res.kind = "Ok"
    /\ out.res.sig.rdata.mac.val[3].prev.val.len = 65535
    /\ out.res.sig.rdata.mac.val[3].msg = out.arg

-----------------------------------------------------------------------------
(* Byte strings and fixed-width integers (DNSKEY, RSA public key, records) *)

\* the variables of the TSIG model, which the operations below leave alone
tsig_vars == <<debug, now, signers, holders, built, msg, edits, verifier,
               accepted, ctx, rsigner>>

\* no signer, no message: the state in which the operations below run
NoTsig ==
    /\ debug \in BOOLEAN
    /\ now = 0
    /\ signers = <<>>
    /\ built = <<>>
    /\ holders = <<>>
    /\ Idle

MaxBytes == 65535
MaxHead == 3

\* byte values the inputs are drawn from
SomeBytes == {0, 1, 255}

RECURSIVE SeqsUpTo(_, _)
\* the sequences over S of length at most n
SeqsUpTo(S, n) ==
    IF n = 0 THEN {<<>>}
    ELSE LET shorter == SeqsUpTo(S, n - 1)
         IN  shorter \cup {Append(q, x) : q \in {r \in shorter : Len(r) = n - 1}, x \in S}

\* a byte string given by its first bytes and the byte that fills it up to
\* its length
Stream(head, fill, len) == [head |-> head, fill |-> fill, len |-> len]

\* the byte at offset i (from 0)
ByteAt(bytes, i) == IF i < Len(bytes.head) THEN bytes.head[i + 1] ELSE bytes.fill

\* a u32 as two 16-bit halves; wrapped records that an addition overflowed
U32(hi, lo) == [hi |-> hi, lo |-> lo, wrapped |-> FALSE]

\* ac + v on u32, for v < 2^16
u32_add(ac, v) ==
    LET lo == ac.lo + v
        hi == ac.hi + (lo \div 65536)
    IN  [hi |-> hi % 65536, lo |-> lo % 65536,
         wrapped |-> ac.wrapped \/ hi >= 65536]

-----------------------------------------------------------------------------
(* DNSKEY::calculate_key_tag_internal (rdata/dnskey.rs) *)

\* the body of the loop: ac += u32::from(*k) << if i & 0x01 != 0 { 0 } else { 8 }
key_tag_add(ac, i, k) == u32_add(ac, IF i % 2 # 0 THEN k ELSE k * 256)

\* mutant: the fold is applied a second time
key_tag_fold_twice(ac) ==
    LET once == u32_add(ac, ac.hi) IN u32_add(once, once.hi)

\* ac += ac >> 16
key_tag_fold(ac) == u32_add(ac, ac.hi)

\* (ac & 0xFFFF) as u16
key_tag_low(ac) == ac.lo

RECURSIVE key_tag_loop(_, _)
\* the accumulator after the first n bytes of a sequence of bytes
key_tag_loop(bytes, n) ==
    IF n = 0 THEN U32(0, 0)
    ELSE key_tag_add(key_tag_loop(bytes, n - 1), n - 1, bytes[n])

\* calculate_key_tag_internal on a sequence of bytes
calculate_key_tag_internal(bytes) ==
    key_tag_low(key_tag_fold(key_tag_loop(bytes, Len(bytes))))

\* calculate_key_tag_internal is entered with a byte string
KeyTagEnter(bytes) ==
    /\ out.op = "key_tag" => out.at # "loop"
    /\ out' = [op |-> "key_tag", at |-> "loop", bytes |-> bytes, i |-> 0,
               ac |-> U32(0, 0)]
    /\ UNCHANGED tsig_vars

\* one iteration of the loop; an addition that overflows panics in a build
\* with overflow checks and wraps otherwise
KeyTagByte ==
    /\ out.op = "key_tag"
    /\ out.at = "loop"
    /\ out.i < out.bytes.len
    /\ LET ac == key_tag_add(out.ac, out.i, ByteAt(out.bytes, out.i)) IN
       out' = IF ac.wrapped /\ debug
              THEN [out EXCEPT !.at = "panic"]
              ELSE [out EXCEPT !.i = @ + 1, !.ac = ac]
    /\ UNCHANGED tsig_vars

\* the loop is over: fold, mask, return
KeyTagReturn ==
    /\ out.op = "key_tag"
    /\ out.at = "loop"
    /\ out.i = out.bytes.len
    /\ LET ac == key_tag_fold(out.ac) IN
       out' = IF ac.wrapped /\ debug
              THEN [out EXCEPT !.at = "panic"]
              ELSE [out EXCEPT !.at = "done", !.ac = ac]
    /\ UNCHANGED tsig_vars

\* the byte strings the key tag is computed of: every short one, and long
\* ones of the greatest length filled with the greatest byte
KeyTagInputs ==
    {Stream(h, 0, Len(h)) : h \in SeqsUpTo(SomeBytes, MaxHead)}
      \cup {Stream(h, 255, MaxBytes) : h \in {<<>>, <<0>>}}

InitKeyTag == NoTsig

NextKeyTag ==
    \/ \E bytes \in KeyTagInputs : KeyTagEnter(bytes)
    \/ KeyTagByte
    \/ KeyTagReturn

SpecKeyTag == InitKeyTag /\ [][NextKeyTag]_vars

RECURSIVE HeadSum(_, _)
\* B[0] << 8 + B[1] + B[2] << 8 + ... over the first n bytes of a sequence
HeadSum(head, n) ==
    IF n = 0 THEN 0
    ELSE HeadSum(head, n - 1) + (IF (n - 1) % 2 = 0 THEN head[n] * 256 ELSE head[n])

\* how many even numbers lie in a..b-1
Evens(a, b) == ((b + 1) \div 2) - ((a + 1) \div 2)

\* S: the sum over i of B[i] << 8 for even i and B[i] for odd i
WeightedSum(bytes) ==
    LET h == Len(bytes.head)
        e == Evens(h, bytes.len)
    IN  HeadSum(bytes.head, h) + bytes.fill * 256 * e
          + bytes.fill * ((bytes.len - h) - e)

\* C14: for a byte string B of at most 65535 bytes, no addition of
\* calculate_key_tag_internal overflows its 32-bit accumulator, and the
\* result is (S + (S >> 16)) & 0xFFFF, S being the sum of B[i] << 8 over
\* the even i and of B[i] over the odd i.
C14_KeyTagIsFoldedSum ==
    out.op = "key_tag" =>
        /\ out.at # "panic"
        /\ ~out.ac.wrapped
        /\ out.at = "done" =>
              LET S == WeightedSum(out.bytes) IN
              key_tag_low(out.ac) = ((S % 65536) + (S \div 65536)) % 65536

\* C14 witness: the key tag of the longest string of bytes 0xFF was
\* returned, and the fold changed it (for 65535 bytes S is 0x7FFF7F01 and
\* the tag 0x7F01 + 0x7FFF)
C14_Witness ==
    /\ out.op = "key_tag"
    /\ out.at = "done"
    /\ out.bytes = Stream(<<>>, 255, MaxBytes)
    /\ key_tag_low(out.ac) # WeightedSum(out.bytes) % 65536
    /\ MaxBytes = 65535 => key_tag_low(out.ac) = 65280

-----------------------------------------------------------------------------
(* Base64 (standard alphabet, padded), as the base64 crate decodes it *)

\* a Base64 text is the sequence of the alphabet indexes 0..63 of its
\* characters, 64 standing for the padding character '='
RECURSIVE base64_encode(_)
base64_encode(bytes) ==
    IF Len(bytes) = 0 THEN <<>>
    ELSE IF Len(bytes) = 1
    THEN <<bytes[1] \div 4, (bytes[1] % 4) * 16, 64, 64>>
    ELSE IF Len(bytes) = 2
    THEN <<bytes[1] \div 4, (bytes[1] % 4) * 16 + (bytes[2] \div 16),
           (bytes[2] % 16) * 4, 64>>
    ELSE <<bytes[1] \div 4, (bytes[1] % 4) * 16 + (bytes[2] \div 16),
           (bytes[2] % 16) * 4 + (bytes[3] \div 64), bytes[3] % 64>>
           \o base64_encode(SubSeq(bytes, 4, Len(bytes)))

RECURSIVE base64_decode(_)
\* [ok, bytes]: padding is required, and the bits left over in the last
\* character must be zero
base64_decode(text) ==
    IF Len(text) = 0 THEN [ok |-> TRUE, bytes |-> <<>>]
    ELSE IF Len(text) < 4 THEN [ok |-> FALSE, bytes |-> <<>>]
    ELSE
    LET c1 == text[1]
        c2 == text[2]
        c3 == text[3]
        c4 == text[4]
        rest == SubSeq(text, 5, Len(text))
        b1 == c1 * 4 + (c2 \div 16)
        b2 == (c2 % 16) * 16 + (c3 \div 4)
        b3 == (c3 % 4) * 64 + c4
        bad == [ok |-> FALSE, bytes |-> <<>>]
    IN  IF c1 = 64 \/ c2 = 64 THEN bad
        ELSE IF c3 = 64
        THEN IF c4 = 64 /\ rest = <<>> /\ c2 % 16 = 0
             THEN [ok |-> TRUE, bytes |-> <<b1>>] ELSE bad
        ELSE IF c4 = 64
        THEN IF rest = <<>> /\ c3 % 4 = 0
             THEN [ok |-> TRUE, bytes |-> <<b1, b2>>] ELSE bad
        ELSE LET r == base64_decode(rest) IN
             IF r.ok THEN [ok |-> TRUE, bytes |-> <<b1, b2, b3>> \o r.bytes]
             ELSE bad

-----------------------------------------------------------------------------
(* DNSKEY, wire form (rdata/dnskey.rs) *)

\* flags & mask != 0, for a mask of one bit
BitSet(flags, mask) == (flags \div mask) % 2 = 1

\* Algorithm: the number of the algorithm, written and read as one octet
Algorithm_emit(algorithm) == <<algorithm>>
Algorithm_from_u8(octet) == octet

PublicKeyBuf_new(key_bytes, algorithm) ==
    [key_bytes |-> key_bytes, algorithm |-> algorithm]

DNSKEY_with_flags(flags, public_key) ==
    [flags |-> flags, public_key |-> public_key]

zone_key(self) == BitSet(self.flags, 256)

secure_entry_point(self) == BitSet(self.flags, 1)

revoke(self) == BitSet(self.flags, 128)

DNSKEY_is_key_signing_key(self) ==
    secure_entry_point(self) /\ zone_key(self) /\ ~revoke(self)

\* emit_u16 writes the more significant byte first
emit_u16(x) == <<x \div 256, x % 256>>

\* mutant: the reserved bits of the flags are not written
DNSKEY_emit_defined_flags(self) ==
    emit_u16((IF zone_key(self) THEN 256 ELSE 0)
               + (IF revoke(self) THEN 128 ELSE 0)
               + (IF secure_entry_point(self) THEN 1 ELSE 0))
      \o <<3>> \o Algorithm_emit(self.public_key.algorithm)
      \o self.public_key.key_bytes

DNSKEY_emit(self) ==
    emit_u16(self.flags) \o <<3>> \o Algorithm_emit(self.public_key.algorithm)
      \o self.public_key.key_bytes

\* a ProtoError: its kind and what the kind carries
ProtoError(kind) == Err(<<kind>>)

DnsKeyProtocolNot3(protocol) == Err(<<"DnsKeyProtocolNot3", protocol>>)

\* the decoder ran out of bytes
Eof == ProtoError("eof")

\* mutant: the protocol octet is read and not examined
DNSKEY_read_data_any_protocol(buf, length) ==
    IF Len(buf) < 4 THEN Eof
    ELSE IF length < 4 THEN ProtoError("invalid rdata length in DNSKEY")
    ELSE IF Len(buf) < length THEN Eof
    ELSE [kind |-> "Ok",
          val |-> DNSKEY_with_flags(buf[1] * 256 + buf[2],
                     PublicKeyBuf_new(SubSeq(buf, 5, length),
                                      Algorithm_from_u8(buf[4])))]

\* DNSKEY::read_data on a decoder holding buf, told that the rdata is
\* length bytes long
DNSKEY_read_data(buf, length) ==
    IF Len(buf) < 2 THEN Eof
    ELSE IF Len(buf) < 3 THEN Eof
    ELSE IF buf[3] # 3 THEN DnsKeyProtocolNot3(buf[3])
    ELSE IF Len(buf) < 4 THEN Eof
    ELSE IF length < 4 THEN ProtoError("invalid rdata length in DNSKEY")
    ELSE IF Len(buf) < length THEN Eof
    ELSE [kind |-> "Ok",
          val |-> DNSKEY_with_flags(buf[1] * 256 + buf[2],
                     PublicKeyBuf_new(SubSeq(buf, 5, length),
                                      Algorithm_from_u8(buf[4])))]

\* DNSKEY::calculate_key_tag: the checksum of the emitted rdata, whatever
\* the algorithm
DNSKEY_calculate_key_tag(self) == calculate_key_tag_internal(DNSKEY_emit(self))

-----------------------------------------------------------------------------
(* DNSKEY, text form (dns-test record.rs) *)

DNSKEYRData(flags, protocol, algorithm, public_key) ==
    [flags |-> flags, protocol |-> protocol, algorithm |-> algorithm,
     public_key |-> public_key]

\* record::DNSKEY::is_key_signing_key: flags & KSK_BIT == KSK_BIT, KSK_BIT = 1
record_DNSKEY_is_key_signing_key(rdata) == BitSet(rdata.flags, 1)

RECURSIVE chunks_sum(_, _)
\* the accumulator after the first n chunks of two bytes; a last chunk of
\* one byte counts as that byte << 8
chunks_sum(rdata, n) ==
    IF n = 0 THEN U32(0, 0)
    ELSE LET halfword == IF 2 * n <= Len(rdata)
                         THEN rdata[2 * n - 1] * 256 + rdata[2 * n]
                         ELSE rdata[2 * n - 1] * 256
         IN  u32_add(chunks_sum(rdata, n - 1), halfword)

\* DNSKEYRData::calculate_key_tag: Panic when the Base64 text does not
\* decode, and for algorithm 1 when fewer than 3 bytes are decoded
DNSKEYRData_calculate_key_tag(self) ==
    LET decoded == base64_decode(self.public_key)
        public_key == decoded.bytes
        len == Len(public_key)
        rdata == emit_u16(self.flags) \o <<3, self.algorithm>> \o public_key
        acc == chunks_sum(rdata, (Len(rdata) + 1) \div 2)
    IN  IF ~decoded.ok THEN Panic
        ELSE IF self.algorithm = 1
        THEN IF len < 3 THEN Panic
             ELSE [kind |-> "Ok",
                   tag |-> public_key[len - 2] * 256 + public_key[len - 1]]
        ELSE [kind |-> "Ok", tag |-> u32_add(acc, acc.hi).lo]

-----------------------------------------------------------------------------
(* Operations on DNSKEY values: each is called once, on arguments of the *)
(* caller's choice                                                       *)

MaxBuf == 5

\* flags: none, each defined bit, a key signing key, a revoked one, reserved
\* bits only, all bits
SomeFlags == {0, 1, 128, 256, 257, 385, 32768, 65278, 65535}

AllFlags == 0..65535

\* algorithm numbers: RSA/MD5, three current ones, a private one, unassigned
SomeAlgorithms == {1, 8, 13, 15, 253, 0}

SomeKeys == SeqsUpTo(SomeBytes, MaxHead)

\* Base64 texts: those of the keys, one with bits left over, one cut short
SomeTexts == {base64_encode(k) : k \in SomeKeys} \cup {<<0, 1, 64, 64>>, <<0, 0>>}

\* rdata handed to the decoder
SomeBufs == SeqsUpTo({0, 1, 3, 255}, MaxBuf)

CalculateKeyTag(flags, algorithm, key_bytes) ==
    /\ out = NoOut
    /\ LET self == DNSKEY_with_flags(flags, PublicKeyBuf_new(key_bytes, algorithm)) IN
       out' = [op |-> "DNSKEY_calculate_key_tag", self |-> self,
               tag |-> DNSKEY_calculate_key_tag(self)]
    /\ UNCHANGED tsig_vars

TextCalculateKeyTag(flags, algorithm, text) ==
    /\ out = NoOut
    /\ LET self == DNSKEYRData(flags, 3, algorithm, text) IN
       out' = [op |-> "DNSKEYRData_calculate_key_tag", self |-> self,
               res |-> DNSKEYRData_calculate_key_tag(self)]
    /\ UNCHANGED tsig_vars

\* a DNSKEY is emitted and the bytes are read back, the rdata length being
\* the number of bytes emitted
EmitReadData(flags, algorithm, key_bytes) ==
    /\ out = NoOut
    /\ LET self == DNSKEY_with_flags(flags, PublicKeyBuf_new(key_bytes, algorithm))
           wire == DNSKEY_emit(self)
       IN  out' = [op |-> "emit_read_data", self |-> self, wire |-> wire,
                   res |-> DNSKEY_read_data(wire, Len(wire))]
    /\ UNCHANGED tsig_vars

ReadData(buf, length) ==
    /\ out = NoOut
    /\ out' = [op |-> "read_data", buf |-> buf, length |-> length,
               res |-> DNSKEY_read_data(buf, length)]
    /\ UNCHANGED tsig_vars

IsKeySigningKey(flags) ==
    /\ out = NoOut
    /\ out' = [op |-> "DNSKEY_is_key_signing_key", flags |-> flags,
               res |-> DNSKEY_is_key_signing_key(
                          DNSKEY_with_flags(flags, PublicKeyBuf_new(<<>>, 8)))]
    /\ UNCHANGED tsig_vars

TextIsKeySigningKey(flags) ==
    /\ out = NoOut
    /\ out' = [op |-> "record_DNSKEY_is_key_signing_key", flags |-> flags,
               res |-> record_DNSKEY_is_key_signing_key(
                          DNSKEYRData(flags, 3, 8, <<>>))]
    /\ UNCHANGED tsig_vars

\* the key tag of one key is computed from its wire form and from its
\* text form
KeyTags(flags, algorithm, key_bytes) ==
    /\ out = NoOut
    /\ out' = [op |-> "key_tags", flags |-> flags, algorithm |-> algorithm,
               key_bytes |-> key_bytes,
               wire |-> DNSKEY_calculate_key_tag(
                           DNSKEY_with_flags(flags,
                                             PublicKeyBuf_new(key_bytes, algorithm))),
               text |-> DNSKEYRData_calculate_key_tag(
                           DNSKEYRData(flags, 3, algorithm, base64_encode(key_bytes)))]
    /\ UNCHANGED tsig_vars

InitDnskey == NoTsig

NextDnskey ==
    \/ /\ out = NoOut
       /\ \E f \in SomeFlags, a \in SomeAlgorithms, k \in SomeKeys :
             CalculateKeyTag(f, a, k)
    \/ /\ out = NoOut
       /\ \E f \in SomeFlags, a \in SomeAlgorithms, t \in SomeTexts :
             TextCalculateKeyTag(f, a, t)
    \/ /\ out = NoOut
       /\ \E f \in SomeFlags, a \in SomeAlgorithms, k \in SomeKeys :
             EmitReadData(f, a, k)
    \/ /\ out = NoOut
       /\ \E buf \in SomeBufs, length \in 0..(MaxBuf + 1) : ReadData(buf, length)
    \/ /\ out = NoOut
       /\ \E f \in AllFlags : IsKeySigningKey(f)
    \/ /\ out = NoOut
       /\ \E f \in AllFlags : TextIsKeySigningKey(f)
    \/ /\ out = NoOut
       /\ \E f \in SomeFlags, a \in SomeAlgorithms, k \in SomeKeys :
             KeyTags(f, a, k)

SpecDnskey == InitDnskey /\ [][NextDnskey]_vars

-----------------------------------------------------------------------------
(* Properties of the DNSKEY operations, under SpecDnskey *)

\* the big-endian u16 at offsets len - 3 and len - 2 of a byte string
TagOfModulus(key_bytes) ==
    key_bytes[Len(key_bytes) - 2] * 256 + key_bytes[Len(key_bytes) - 1]

\* C15: for a DNSKEY of algorithm 1 whose public key has len >= 3 bytes,
\* calculate_key_tag returns the big-endian u16 at offsets len - 3 and
\* len - 2 of the key, in the text form and in the wire form.
C15_Rsamd5TagFromModulus ==
    /\ (/\ out.op = "DNSKEYRData_calculate_key_tag"
        /\ out.self.algorithm = 1
        /\ base64_decode(out.self.public_key).ok
        /\ Len(base64_decode(out.self.public_key).bytes) >= 3) =>
          out.res = [kind |-> "Ok",
                     tag |-> TagOfModulus(base64_decode(out.self.public_key).bytes)]
    /\ (/\ out.op = "DNSKEY_calculate_key_tag"
        /\ out.self.public_key.algorithm = 1
        /\ Len(out.self.public_key.key_bytes) >= 3) =>
          out.tag = TagOfModulus(out.self.public_key.key_bytes)

\* C16: emit writes the flags (2 bytes, big-endian), 3, the algorithm and
\* the public key; read_data on these bytes and their number returns a
\* DNSKEY equal to the one emitted, reserved flag bits included.
C16_EmitReadDataRoundTrip ==
    out.op = "emit_read_data" =>
        /\ out.wire = <<out.self.flags \div 256, out.self.flags % 256, 3,
                        out.self.public_key.algorithm>>
                        \o out.self.public_key.key_bytes
        /\ out.res = [kind |-> "Ok", val |-> out.self]

\* C16 witness: a DNSKEY with every flag bit set and a key of three bytes
\* was emitted and read back
C16_Witness ==
    /\ out.op = "emit_read_data"
    /\ out.self.flags = 65535
    /\ out.self.public_key.algorithm = 253
    /\ out.self.public_key.key_bytes = <<255, 0, 1>>
    /\ out.wire = <<255, 255, 3, 253, 255, 0, 1>>
    /\ out.res.kind = "Ok"
    /\ out.res.val.flags = 65535

\* C17: read_data returns DnsKeyProtocolNot3(p) when the protocol octet p
\* is not 3, and an error when the rdata length it is told is less than 4:
\* no DNSKEY is returned in either case.
C17_ReadDataRefuses ==
    out.op = "read_data" =>
        /\ (Len(out.buf) >= 3 /\ out.buf[3] # 3) =>
              out.res = DnsKeyProtocolNot3(out.buf[3])
        /\ out.length < 4 => out.res.kind = "Err"

\* C17 witness: five bytes with protocol 3, declared as 3 bytes of rdata,
\* were refused for the length
C17_Witness ==
    /\ out.op = "read_data"
    /\ Len(out.buf) = 5
    /\ out.buf[3] = 3
    /\ out.length = 3
    /\ out.res = ProtoError("invalid rdata length in DNSKEY")

\* C18: is_key_signing_key is true exactly when the Zone Key bit (0x0100)
\* and the Secure Entry Point bit (0x0001) are set and the Revoke bit
\* (0x0080) is clear, in the wire form and in the text form.
C18_KskIsZoneSepNotRevoked ==
    out.op \in {"DNSKEY_is_key_signing_key", "record_DNSKEY_is_key_signing_key"} =>
        (out.res <=> (/\ BitSet(out.flags, 256)
                      /\ BitSet(out.flags, 1)
                      /\ ~BitSet(out.flags, 128)))

-----------------------------------------------------------------------------
(* Text: a string is the sequence of its characters *)

Digits == <<"0", "1", "2", "3", "4", "5", "6", "7", "8", "9">>

UpperLetters == <<"A", "B", "C", "D", "E", "F", "G", "H", "I", "J", "K", "L", "M",
                  "N", "O", "P", "Q", "R", "S", "T", "U", "V", "W", "X", "Y", "Z">>

LowerLetters == <<"a", "b", "c", "d", "e", "f", "g", "h", "i", "j", "k", "l", "m",
                  "n", "o", "p", "q", "r", "s", "t", "u", "v", "w", "x", "y", "z">>

IsDigit(c) == \E i \in DOMAIN Digits : Digits[i] = c

DigitValue(c) == (CHOOSE i \in DOMAIN Digits : Digits[i] = c) - 1

\* char::to_lowercase on the characters of the model
to_lowercase_char(c) ==
    IF \E i \in DOMAIN UpperLetters : UpperLetters[i] = c
    THEN LowerLetters[CHOOSE i \in DOMAIN UpperLetters : UpperLetters[i] = c]
    ELSE c

\* str::to_lowercase
to_lowercase(text) == [i \in DOMAIN text |-> to_lowercase_char(text[i])]

\* str::strip_prefix
strip_prefix(text, prefix) ==
    IF Len(text) >= Len(prefix) /\ SubSeq(text, 1, Len(prefix)) = prefix
    THEN Some(SubSeq(text, Len(prefix) + 1, Len(text)))
    ELSE None

RECURSIVE decimal(_)
\* format!("{n}") of an unsigned integer: its decimal digits, no leading 0
decimal(n) ==
    IF n < 10 THEN <<Digits[n + 1]>>
    ELSE Append(decimal(n \div 10), Digits[(n % 10) + 1])

RECURSIVE parse_digits(_, _, _)
\* the value of the first n characters of digits, or -1 when one of them
\* is no digit or the value exceeds max
parse_digits(digits, n, max) ==
    IF n = 0 THEN 0
    ELSE LET v == parse_digits(digits, n - 1, max) IN
         IF v < 0 \/ ~IsDigit(digits[n]) THEN -1
         ELSE IF v > max \div 10 THEN -1
         ELSE IF v * 10 > max - DigitValue(digits[n]) THEN -1
         ELSE v * 10 + DigitValue(digits[n])

\* <uN as FromStr>::from_str: an optional '+', then at least one digit;
\* None on anything else and on overflow
parse_unsigned(text, max) ==
    LET digits == IF Len(text) > 0 /\ text[1] = "+" THEN Tail(text) ELSE text
        v == parse_digits(digits, Len(digits), max)
    IN  IF Len(digits) = 0 \/ v < 0 THEN None ELSE Some(v)

-----------------------------------------------------------------------------
(* RecordType (dns-test record.rs) *)

\* the variants named in record_types!, each by stringify!(variant)
NamedRecordTypes ==
    { <<"A">>, <<"A", "A", "A", "A">>, <<"C", "A", "A">>,
      <<"C", "N", "A", "M", "E">>, <<"D", "N", "S", "K", "E", "Y">>,
      <<"D", "S">>, <<"M", "X">>, <<"N", "S">>, <<"N", "S", "E", "C">>,
      <<"N", "S", "E", "C", "3">>,
      <<"N", "S", "E", "C", "3", "P", "A", "R", "A", "M">>,
      <<"R", "R", "S", "I", "G">>, <<"S", "O", "A">>, <<"T", "X", "T">> }

RecordType_Named(variant) == [named |-> TRUE, variant |-> variant]

RecordType_Unknown(code) == [named |-> FALSE, code |-> code]

RecordType_as_name(self) ==
    IF self.named THEN self.variant
    ELSE <<"t", "y", "p", "e">> \o decimal(self.code)

\* mutant: the input is not lowercased before the prefix is looked for
RecordType_from_str_exact_prefix(input) ==
    IF input \in NamedRecordTypes
    THEN [kind |-> "Ok", val |-> RecordType_Named(input)]
    ELSE LET type_code_str == strip_prefix(input, <<"t", "y", "p", "e">>)
             type_code == IF type_code_str.some
                          THEN parse_unsigned(type_code_str.val, 65535) ELSE None
         IN  IF type_code.some
             THEN [kind |-> "Ok", val |-> RecordType_Unknown(type_code.val)]
             ELSE Err("unknown record type")

\* <RecordType as FromStr>::from_str
RecordType_from_str(input) ==
    IF input \in NamedRecordTypes
    THEN [kind |-> "Ok", val |-> RecordType_Named(input)]
    ELSE LET lowercase == to_lowercase(input)
             type_code_str == strip_prefix(lowercase, <<"t", "y", "p", "e">>)
             type_code == IF type_code_str.some
                          THEN parse_unsigned(type_code_str.val, 65535) ELSE None
         IN  IF type_code.some
             THEN [kind |-> "Ok", val |-> RecordType_Unknown(type_code.val)]
             ELSE Err("unknown record type")

-----------------------------------------------------------------------------
(* TXT records in text form (dns-test record.rs) *)

is_ascii_whitespace(c) == c \in {" ", "\t", "\n", "\r", "\f"}

\* every character of the model is ASCII but this one
is_ascii(c) == c # "NON-ASCII"

RECURSIVE trim_start(_)
trim_start(text) ==
    IF Len(text) > 0 /\ is_ascii_whitespace(text[1]) THEN trim_start(Tail(text))
    ELSE text

RECURSIVE trim_end(_)
trim_end(text) ==
    IF Len(text) > 0 /\ is_ascii_whitespace(text[Len(text)])
    THEN trim_end(SubSeq(text, 1, Len(text) - 1))
    ELSE text

\* str::trim
trim(text) == trim_end(trim_start(text))

\* the closure of TXT::from_str that takes the next column off rest:
\* rest.split_once at the first whitespace character, the remainder trimmed
next_column(rest) ==
    IF \E i \in DOMAIN rest : is_ascii_whitespace(rest[i])
    THEN LET i == CHOOSE j \in DOMAIN rest :
                    /\ is_ascii_whitespace(rest[j])
                    /\ \A k \in 1..(j - 1) : ~is_ascii_whitespace(rest[k])
         IN  [col |-> Some(SubSeq(rest, 1, i - 1)),
              rest |-> trim(SubSeq(rest, i + 1, Len(rest)))]
    ELSE [col |-> IF trim(rest) = <<>> THEN None ELSE Some(trim(rest)),
          rest |-> <<>>]

\* FQDN::from_str: a name is accepted when it ends with the root label and
\* holds no whitespace; its text is the name itself
FQDN_from_str(text) ==
    IF /\ Len(text) > 0
       /\ text[Len(text)] = "."
       /\ \A i \in DOMAIN text : ~is_ascii_whitespace(text[i])
    THEN Some(text) ELSE None

TXT(zone, ttl, character_strings) ==
    [zone |-> zone, ttl |-> ttl, character_strings |-> character_strings]

RECURSIVE txt_scan(_, _)
\* the state machine of TXT::from_str after the first n characters of rest
txt_scan(rest, n) ==
    IF n = 0
    THEN [state |-> "Whitespace", character_strings |-> <<>>,
          current_string |-> <<>>, err |-> ""]
    ELSE
    LET s == txt_scan(rest, n - 1)
        character == rest[n]
        pushed == [s EXCEPT !.character_strings = Append(@, s.current_string),
                            !.current_string = <<>>,
                            !.state = "Whitespace"]
    IN  IF s.err # "" THEN s
        ELSE IF ~is_ascii(character)
        THEN [s EXCEPT !.err = "non-ASCII characters in TXT records are not supported"]
        ELSE IF s.state = "Whitespace" /\ is_ascii_whitespace(character) THEN s
        ELSE IF s.state = "Whitespace" /\ character = "\""
        THEN [s EXCEPT !.state = "QuotedString"]
        ELSE IF s.state = "UnquotedString" /\ is_ascii_whitespace(character)
        THEN pushed
        ELSE IF s.state = "QuotedString" /\ character = "\"" THEN pushed
        ELSE IF s.state = "Whitespace" /\ character = "("
        THEN [s EXCEPT !.err = "multi-line TXT records are not supported"]
        ELSE IF character = "@"
        THEN [s EXCEPT !.err =
                "denoting the current origin with @ in TXT records is not supported"]
        ELSE IF character = "\\"
        THEN [s EXCEPT !.err = "backslash escapes in TXT records are not supported"]
        ELSE IF s.state \in {"Whitespace", "UnquotedString"}
        THEN [s EXCEPT !.current_string = Append(@, character),
                       !.state = "UnquotedString"]
        ELSE [s EXCEPT !.current_string = Append(@, character)]

\* <TXT as FromStr>::from_str
TXT_from_str(input) ==
    LET zone == next_column(input)
        ttl == next_column(zone.rest)
        class == next_column(ttl.rest)
        record_type == next_column(class.rest)
        rest == record_type.rest
        scan == txt_scan(rest, Len(rest))
        character_strings ==
            IF scan.state = "UnquotedString"
            THEN Append(scan.character_strings, scan.current_string)
            ELSE scan.character_strings
    IN  IF ~(zone.col.some /\ ttl.col.some /\ class.col.some /\ record_type.col.some)
        THEN Err("expected at least 5 columns")
        ELSE IF record_type.col.val # <<"T", "X", "T">>
        THEN Err("tried to parse record as an TXT record")
        ELSE IF class.col.val # <<"I", "N">> THEN Err("unknown class")
        ELSE IF scan.err # "" THEN Err(scan.err)
        ELSE IF scan.state = "QuotedString"
        THEN Err("quoted string in TXT record was not closed")
        ELSE IF character_strings = <<>> THEN Err("expected at least 5 columns")
        ELSE IF ~FQDN_from_str(zone.col.val).some THEN Err("invalid FQDN")
        ELSE IF ~parse_unsigned(ttl.col.val, 2147483647).some
        THEN Err("invalid digit found in string")
        ELSE [kind |-> "Ok",
              val |-> TXT(FQDN_from_str(zone.col.val).val,
                          parse_unsigned(ttl.col.val, 2147483647).val,
                          character_strings)]

RECURSIVE txt_fmt_strings(_, _)
\* the first n character strings as written: the first behind a tab, the
\* others behind a space, each between double quotes
txt_fmt_strings(character_strings, n) ==
    IF n = 0 THEN <<>>
    ELSE txt_fmt_strings(character_strings, n - 1)
           \o <<IF n = 1 THEN "\t" ELSE " ", "\"">>
           \o character_strings[n] \o <<"\"">>

\* <TXT as Display>::fmt
TXT_fmt(self) ==
    self.zone \o <<"\t">> \o decimal(self.ttl) \o <<"\t", "I", "N", "\t", "T", "X", "T">>
      \o txt_fmt_strings(self.character_strings, Len(self.character_strings))

-----------------------------------------------------------------------------
(* Operations on text: each is called once, on arguments of the caller's  *)
(* choice                                                                 *)

MaxStr == 2

\* every code of an unknown record type
AllCodes == 0..65535

\* the prefix of an unknown record type, in several letter cases
TypePrefixes == { <<"t", "y", "p", "e">>, <<"T", "Y", "P", "E">>,
                  <<"T", "y", "p", "e">>, <<"t", "Y", "p", "E">> }

\* what follows the prefix: numbers as RecordType writes them, a number
\* that is no u16, a sign, leading zeros, nothing, no number
TypeSuffixes ==
    {decimal(n) : n \in {0, 1, 48, 1000, 65535}}
      \cup { <<"6", "5", "5", "3", "6">>, <<"+", "5">>, <<"0", "0", "7">>, <<>>,
             <<"x">>, <<"-", "1">> }

\* texts handed to RecordType::from_str
RecordTypeTexts ==
    {p \o x : p \in TypePrefixes, x \in TypeSuffixes}
      \cup NamedRecordTypes \cup {to_lowercase(v) : v \in NamedRecordTypes}

AsNameFromStr(t) ==
    /\ out = NoOut
    /\ out' = [op |-> "as_name_from_str", t |-> t, name |-> RecordType_as_name(t),
               res |-> RecordType_from_str(RecordType_as_name(t))]
    /\ UNCHANGED tsig_vars

FromStr(input) ==
    /\ out = NoOut
    /\ out' = [op |-> "RecordType_from_str", input |-> input,
               res |-> RecordType_from_str(input)]
    /\ UNCHANGED tsig_vars

\* characters of a character string: a letter, a space, and the three
\* characters the parser gives a meaning to
TxtChars == {"a", " ", "\"", "@", "\\"}

TxtStrings == SeqsUpTo(TxtChars, MaxStr)

\* TXT records of one or two character strings
TxtRecords ==
    {TXT(zone, ttl, strings) :
        zone \in { <<".">>, <<"e", ".">> },
        ttl \in {0, 77859},
        strings \in {<<x>> : x \in TxtStrings}
                      \cup {<<x, y>> : x \in TxtStrings, y \in TxtStrings}}

\* a TXT record is written and the text is parsed
TxtFmtFromStr(record) ==
    /\ out = NoOut
    /\ out' = [op |-> "txt_fmt_from_str", record |-> record,
               text |-> TXT_fmt(record), res |-> TXT_from_str(TXT_fmt(record))]
    /\ UNCHANGED tsig_vars

InitText == NoTsig

NextText ==
    \/ /\ out = NoOut
       /\ \E v \in NamedRecordTypes : AsNameFromStr(RecordType_Named(v))
    \/ /\ out = NoOut
       /\ \E n \in AllCodes : AsNameFromStr(RecordType_Unknown(n))
    \/ /\ out = NoOut
       /\ \E input \in RecordTypeTexts : FromStr(input)
    \/ /\ out = NoOut
       /\ \E record \in TxtRecords : TxtFmtFromStr(record)

SpecText == InitText /\ [][NextText]_vars

-----------------------------------------------------------------------------
(* Properties of the text operations, under SpecText *)

\* digits is the decimal numeral of n: digits only, no leading zero
IsDecimalOf(digits, n) ==
    /\ Len(digits) >= 1
    /\ Len(digits) > 1 => digits[1] # "0"
    /\ parse_digits(digits, Len(digits), 65535) = n

\* C19: from_str(as_name(t)) is t for every named t and for Unknown(n)
\* with every n in 0..65535; as_name(Unknown(n)) is "type" followed by the
\* decimal numeral of n; and from_str of that numeral behind the prefix in
\* any letter case is Unknown(n).
C19_RecordTypeRoundTrip ==
    /\ out.op = "as_name_from_str" =>
          /\ out.res = [kind |-> "Ok", val |-> out.t]
          /\ ~out.t.named =>
                /\ Len(out.name) > 4
                /\ SubSeq(out.name, 1, 4) = <<"t", "y", "p", "e">>
                /\ IsDecimalOf(SubSeq(out.name, 5, Len(out.name)), out.t.code)
    /\ (/\ out.op = "RecordType_from_str"
        /\ Len(out.input) > 4
        /\ SubSeq(out.input, 1, 4) \in TypePrefixes) =>
          LET digits == SubSeq(out.input, 5, Len(out.input))
              n == parse_digits(digits, Len(digits), 65535)
          IN  (n \in AllCodes /\ IsDecimalOf(digits, n)) =>
                 out.res = [kind |-> "Ok", val |-> RecordType_Unknown(n)]

\* C19 witness: Unknown(1), whose code is that of the named type A, was
\* written as "type1" and read back as Unknown(1)
C19_Witness ==
    /\ out.op = "as_name_from_str"
    /\ out.t = RecordType_Unknown(1)
    /\ out.name = <<"t", "y", "p", "e", "1">>
    /\ out.res = [kind |-> "Ok", val |-> RecordType_Unknown(1)]

\* C20: the text written for a TXT record of ASCII character strings
\* parses, and the record parsed has the zone, the ttl and the character
\* strings of the record written, in the same order.
C20_TxtRoundTrip ==
    out.op = "txt_fmt_from_str" =>
        out.res = [kind |-> "Ok", val |-> out.record]

-----------------------------------------------------------------------------
(* NSEC3PARAM records in text form (dns-test record.rs) *)

\* char::is_whitespace on the characters of the model
is_whitespace(c) == is_ascii_whitespace(c)

RECURSIVE split_whitespace(_)
\* str::split_whitespace, collected: the maximal runs of characters that
\* are no whitespace, in order
split_whitespace(text) ==
    LET t == trim_start(text)
        end == IF \E i \in DOMAIN t : is_whitespace(t[i])
               THEN CHOOSE i \in DOMAIN t :
                        /\ is_whitespace(t[i])
                        /\ \A k \in 1..(i - 1) : ~is_whitespace(t[k])
               ELSE Len(t) + 1
    IN  IF t = <<>> THEN <<>>
        ELSE <<SubSeq(t, 1, end - 1)>> \o split_whitespace(SubSeq(t, end, Len(t)))

NSEC3PARAM(zone, ttl, hash_alg, flags, iterations) ==
    [zone |-> zone, ttl |-> ttl, hash_alg |-> hash_alg, flags |-> flags,
     iterations |-> iterations]

\* <NSEC3PARAM as FromStr>::from_str; the ttl is read as far as 2^31 - 1
NSEC3PARAM_from_str(input) ==
    LET columns == split_whitespace(input) IN
    IF Len(columns) # 8 THEN Err("expected 8 columns")
    ELSE
    LET zone == FQDN_from_str(columns[1])
        ttl == parse_unsigned(columns[2], 2147483647)
        hash_alg == parse_unsigned(columns[5], 255)
        flags == parse_unsigned(columns[6], 255)
        iterations == parse_unsigned(columns[7], 65535)
    IN  IF columns[4] # <<"N", "S", "E", "C", "3", "P", "A", "R", "A", "M">>
        THEN Err("tried to parse record as an NSEC3PARAM record")
        ELSE IF columns[3] # <<"I", "N">> THEN Err("unknown class")
        ELSE IF columns[8] # <<"-">>
        THEN Panic
        ELSE IF ~zone.some THEN Err("invalid FQDN")
        ELSE IF ~(ttl.some /\ hash_alg.some /\ flags.some /\ iterations.some)
        THEN Err("ParseIntError")
        ELSE [kind |-> "Ok",
              val |-> NSEC3PARAM(zone.val, ttl.val, hash_alg.val, flags.val,
                                 iterations.val)]

RECURSIVE join(_, _)
\* the columns with sep between each two
join(columns, sep) ==
    IF Len(columns) = 0 THEN <<>>
    ELSE IF Len(columns) = 1 THEN columns[1]
    ELSE columns[1] \o sep \o join(Tail(columns), sep)

-----------------------------------------------------------------------------
(* DNSKEY records in text form: the parser of a line (dns-test record.rs) *)

\* str::rsplit_once(" ;"): the text on both sides of the last place where
\* a space is followed by a semicolon
rsplit_once_space_semicolon(text) ==
    LET found == {i \in 1..(Len(text) - 1) : text[i] = " " /\ text[i + 1] = ";"} IN
    IF found = {} THEN None
    ELSE LET i == CHOOSE j \in found : \A k \in found : k <= j
         IN  Some([left |-> SubSeq(text, 1, i - 1),
                   right |-> SubSeq(text, i + 2, Len(text))])

record_DNSKEY(zone, ttl, rdata) == [zone |-> zone, ttl |-> ttl, rdata |-> rdata]

\* <DNSKEY as FromStr>::from_str; public_key is the text of the key, a
\* sequence of characters; the ttl is read as far as 2^31 - 1
DNSKEY_from_str(text) ==
    LET split == rsplit_once_space_semicolon(text)
        input == IF split.some THEN trim_end(split.val.left) ELSE text
        columns == split_whitespace(input)
    IN  IF Len(columns) < 7 THEN Err("expected at least 7 columns")
        ELSE
        LET zone == FQDN_from_str(columns[1])
            ttl == parse_unsigned(columns[2], 2147483647)
            flags == parse_unsigned(columns[5], 65535)
            protocol == parse_unsigned(columns[6], 255)
            algorithm == parse_unsigned(columns[7], 255)
            public_key == join(SubSeq(columns, 8, Len(columns)), <<>>)
        IN  IF columns[4] # <<"D", "N", "S", "K", "E", "Y">>
            THEN Err("tried to parse record as an DNSKEY record")
            ELSE IF columns[3] # <<"I", "N">> THEN Err("unknown class")
            ELSE IF ~zone.some THEN Err("invalid FQDN")
            ELSE IF ~(ttl.some /\ flags.some /\ protocol.some /\ algorithm.some)
            THEN Err("ParseIntError")
            ELSE [kind |-> "Ok",
                  val |-> record_DNSKEY(zone.val, ttl.val,
                                        DNSKEYRData(flags.val, protocol.val,
                                                    algorithm.val, public_key))]

-----------------------------------------------------------------------------
(* Parsers of record lines: each is called once, on a line of the         *)
(* caller's choice                                                        *)

MaxColumns == 9

\* what stands between two columns
Separators == { <<" ">>, <<"\t">>, <<" ", " ">> }

\* the eight columns of a well-formed NSEC3PARAM line, each column also
\* with values the parser has to refuse
Nsec3paramColumns ==
    { <<zone, ttl, class, record_type, hash_alg, <<"0">>, iterations, salt>> :
        zone \in { <<".">>, <<"e">> },
        ttl \in { <<"8", "6", "4", "0", "0">>, <<"x">> },
        class \in { <<"I", "N">>, <<"C", "H">> },
        record_type \in { <<"N", "S", "E", "C", "3", "P", "A", "R", "A", "M">>,
                          <<"T", "X", "T">> },
        hash_alg \in { <<"1">>, <<"2", "5", "6">> },
        iterations \in { <<"0">>, <<"6", "5", "5", "3", "6">> },
        salt \in { <<"-">>, <<"a", "a", "b", "b">>, <<"-", "-">> } }

\* lines of 0 to MaxColumns columns: the first columns of the eight, or
\* the eight and further ones
Nsec3paramLines ==
    { join(SubSeq(columns \o [i \in 1..(MaxColumns - 8) |-> <<"x">>], 1, n), sep) :
        columns \in Nsec3paramColumns, n \in 0..MaxColumns, sep \in Separators }

Nsec3paramFromStr(input) ==
    /\ out = NoOut
    /\ out' = [op |-> "NSEC3PARAM_from_str", input |-> input,
               res |-> NSEC3PARAM_from_str(input)]
    /\ UNCHANGED tsig_vars

MaxRdata == 4

\* characters of the rdata of a TXT line: a letter, a space, the quote,
\* and the characters the parser refuses
RdataChars == {"a", " ", "\"", "(", "@", "\\", "NON-ASCII"}

TxtRdata == SeqsUpTo(RdataChars, MaxRdata)

\* the four columns in front of the rdata of a TXT line
TxtColumns == <<".", "\t", "0", "\t", "I", "N", "\t", "T", "X", "T", "\t">>

\* the line made of the four columns and rdata is parsed as a TXT record
TxtFromStr(rdata) ==
    /\ out = NoOut
    /\ out' = [op |-> "TXT_from_str", rdata |-> rdata,
               res |-> TXT_from_str(TxtColumns \o rdata)]
    /\ UNCHANGED tsig_vars

MaxComment == 3

\* the seven columns in front of the key, well-formed and one column short
DnskeyHeads ==
    { <<".", "\t", "8", "6", "4", "0", "0", "\t", "I", "N", "\t",
        "D", "N", "S", "K", "E", "Y", "\t", "2", "5", "6", " ", "3", " ", "7">>,
      <<".", "\t", "8", "6", "4", "0", "0", "\t", "I", "N", "\t",
        "D", "N", "S", "K", "E", "Y", "\t", "2", "5", "6", " ", "3">> }

\* the key as dig and ldns-signzone write it: in no, one or two columns
DnskeyKeys ==
    { <<>>, << <<"A", "w", "E", "A">> >>, << <<"A", "w", "E", "A">>, <<"A", "Q", "=", "=">> >> }

\* what a comment holds behind its " ;"
CommentChars == {"a", " ", ";", "="}

DnskeyComments == SeqsUpTo(CommentChars, MaxComment)

\* the line head, key and " ;" comment is parsed as a DNSKEY record
DnskeyFromStr(head, key, blanks, comment) ==
    /\ out = NoOut
    /\ LET rr == join(<<head>> \o key, <<" ">>) IN
       out' = [op |-> "DNSKEY_from_str", rr |-> rr, key |-> key, comment |-> comment,
               res |-> DNSKEY_from_str(rr \o blanks \o <<" ", ";">> \o comment)]
    /\ UNCHANGED tsig_vars

InitParse == NoTsig

NextParse ==
    \/ /\ out = NoOut
       /\ \E input \in Nsec3paramLines : Nsec3paramFromStr(input)
    \/ /\ out = NoOut
       /\ \E rdata \in TxtRdata : TxtFromStr(rdata)
    \/ /\ out = NoOut
       /\ \E head \in DnskeyHeads, key \in DnskeyKeys, blanks \in {<<>>, <<" ">>},
             comment \in DnskeyComments :
             DnskeyFromStr(head, key, blanks, comment)

SpecParse == InitParse /\ [][NextParse]_vars

-----------------------------------------------------------------------------
(* Properties of the parsers, under SpecParse *)

\* C21: parsing an NSEC3PARAM line whose eighth column is not "-", or that
\* has not 8 columns, returns an error value: the call returns, and what
\* it returns is Err and no NSEC3PARAM.
C21_Nsec3paramRefusesByError ==
    out.op = "NSEC3PARAM_from_str" =>
        LET columns == split_whitespace(out.input) IN
        (Len(columns) # 8 \/ columns[8] # <<"-">>) => out.res.kind = "Err"

-----------------------------------------------------------------------------
(* The name of a signer, under SpecNew *)

\* C22: after a successful TSigner::new the signer name is the lowercase
\* fully-qualified form of the name given: the root label is there and
\* no uppercase letter is left.
C22_SignerNameLowercaseFqdn ==
    (out.op = "new" /\ out.ok) =>
        TSigner_signer_name(signers[holders[out.h]])
          = [label |-> Lower(out.args.signer_name.label), fqdn |-> TRUE]

\* the half of C22 that the constructor does keep: the name is made
\* fully qualified, and it is equal to the lowercase form under the
\* comparison of names, which ignores case
C22_SignerNameIsFqdn ==
    (out.op = "new" /\ out.ok) =>
        LET name == TSigner_signer_name(signers[holders[out.h]]) IN
        /\ name.fqdn
        /\ NameEq(name, [label |-> Lower(out.args.signer_name.label), fqdn |-> TRUE])

-----------------------------------------------------------------------------
(* Single use of the response context and of the response signers, under  *)
(* SpecResp                                                               *)

\* the operation that consumes a context, and the signer it yields
CtxBranches ==
    [ctx_sign |-> "TSigResponseSigner", ctx_bad_signature |-> "BadSignatureSigner",
     ctx_unknown_key |-> "UnknownKeySigner"]

\* C23: sign, bad_signature and unknown_key are applied to an open
\* context only and leave no context behind, so that at most one of them
\* is applied to a context; the step yields the one response signer of
\* that branch, a response signer comes from nowhere else, and its sign
\* is applied to a signer that is there and leaves none behind.
C23_ContextAndSignerSingleUse ==
    [][/\ out'.op \in DOMAIN CtxBranches =>
            /\ ctx.state = "open"
            /\ ctx'.state = "none"
            /\ rsigner'.kind = CtxBranches[out'.op]
            /\ rsigner'.request_id = ctx.request_id
            /\ rsigner'.time = ctx.time
       /\ (rsigner' # rsigner /\ rsigner'.kind # "none") =>
            out'.op \in DOMAIN CtxBranches
       /\ (ctx' # ctx /\ ctx'.state = "open") =>
            out'.op = "ctx_new" /\ ctx.state = "none"
       /\ out'.op = "response_sign" =>
            /\ rsigner.kind # "none"
            /\ out'.by = rsigner
            /\ rsigner'.kind = "none"
            /\ ctx' = ctx
      ]_vars

\* C23 witness: the context of a request was consumed by unknown_key and
\* the signer obtained has signed: neither is left
C23_Witness ==
    /\ out.op = "response_sign"
    /\ out.by.kind = "UnknownKeySigner"
    /\ out.res.kind = "Ok"
    /\ ctx.state = "none"
    /\ rsigner.kind = "none"

-----------------------------------------------------------------------------
(* The TXT parser on rdata of the caller's choice, under SpecParse *)

\* C24: the TXT parser returns an error for every rdata portion that
\* holds a non-ASCII character, '(', '@' or a backslash, in whichever
\* state the character is read, and no character string of a record it
\* returns holds one of them.
C24_TxtRefusesSpecialCharacters ==
    out.op = "TXT_from_str" =>
        /\ (\E i \in DOMAIN out.rdata : out.rdata[i] \in {"NON-ASCII", "(", "@", "\\"})
              => out.res.kind = "Err"
        /\ out.res.kind = "Ok" =>
              \A s \in DOMAIN out.res.val.character_strings :
                 \A i \in DOMAIN out.res.val.character_strings[s] :
                    out.res.val.character_strings[s][i]
                       \notin {"NON-ASCII", "(", "@", "\\"}

\* what the parser does keep of C24: a non-ASCII character, '@' and a
\* backslash are refused in every state, '(' where a string would begin
C24_TxtRefusesNonAsciiAtBackslash ==
    out.op = "TXT_from_str" =>
        /\ (\E i \in DOMAIN out.rdata : out.rdata[i] \in {"NON-ASCII", "@", "\\"})
              => out.res.kind = "Err"
        /\ (out.rdata # <<>> /\ out.rdata[1] = "(") => out.res.kind = "Err"
        /\ out.res.kind = "Ok" =>
              \A s \in DOMAIN out.res.val.character_strings :
                 \A i \in DOMAIN out.res.val.character_strings[s] :
                    out.res.val.character_strings[s][i] \notin {"NON-ASCII", "@", "\\"}

-----------------------------------------------------------------------------
(* The DNSKEY parser on lines that end with a comment, under SpecParse *)

\* C25: when a DNSKEY line ends with a comment that begins with " ;", the
\* public key parsed is the concatenation of the columns between the
\* algorithm and the comment, and the record parsed is the one parsed
\* from the line without the comment, whatever the comment holds.
C25_CommentNeverReachesKey ==
    (out.op = "DNSKEY_from_str" /\ DNSKEY_from_str(out.rr).kind = "Ok") =>
        /\ out.res = DNSKEY_from_str(out.rr)
        /\ out.res.val.rdata.public_key = join(out.key, <<>>)

\* what the parser does keep of C25: the same, for comments that hold no
\* further " ;"
C25_SingleCommentStripped ==
    (/\ out.op = "DNSKEY_from_str"
     /\ DNSKEY_from_str(out.rr).kind = "Ok"
     /\ ~rsplit_once_space_semicolon(<<";">> \o out.comment).some) =>
        /\ out.res = DNSKEY_from_str(out.rr)
        /\ out.res.val.rdata.public_key = join(out.key, <<>>)

-----------------------------------------------------------------------------
(* The first_message argument of the verifier closure, under SpecChain *)

\* C26: the first_message argument of verify_message_byte is true in every
\* call of the closure made before any response was accepted and false
\* in every call made after one was accepted.
C26_FirstMessageUntilAccepted ==
    Called => (out.call.first <=> AcceptedBefore = <<>>)

\* C26 witness: a response signed at time 0 verified and was not accepted,
\* and the call was made after a response had been accepted, with
\* first_message false
C26_Witness ==
    /\ Called
    /\ AcceptedBefore # <<>>
    /\ ~out.call.first
    /\ out.call.res.kind = "Ok"
    /\ out.call.res.time = 0
    /\ out.verdict = "outdated response"

\* no response signed at time 0 is accepted: the range of such a response
\* is empty, or its start has wrapped around
NoneAcceptedAtTimeZero == \A i \in DOMAIN accepted : accepted[i].time # 0

-----------------------------------------------------------------------------
(* Calls of the verifier closure that fail, under SpecChain *)

\* C27: a call of the verifier closure that fails, by an error of
\* verify_message_byte, by a time_signed below the last accepted time or
\* by a time outside the range, leaves the stored MAC and the stored time
\* as they were, and a response verified after it has the outcome it
\* would have had without the failed call.
C27_FailedCallChangesNothing ==
    [][(out'.op = "verifier" /\ out'.verdict # "Accepted") =>
          /\ verifier'.signature = verifier.signature
          /\ verifier'.remote_time = verifier.remote_time
          /\ accepted' = accepted
          /\ \A ts \in Times :
                LET later == Response(signers[verifier.self2], msg.id, "q1", ts,
                                      verifier.signature, accepted = <<>>)
                IN  verifier_call(verifier', later) = verifier_call(verifier, later)
      ]_vars

\* C27 witness: after a response was accepted, a response that verifies
\* was refused for its range, and the closure still holds the MAC and the
\* time of the accepted one
C27_Witness ==
    /\ Called
    /\ accepted # <<>>
    /\ out.call.res.kind = "Ok"
    /\ out.call.res.time >= accepted[Len(accepted)].time
    /\ ~contains(out.call.res.range, verifier.current_time)
    /\ out.verdict = "outdated response"
    /\ out.call.res.mac # verifier.signature
    /\ verifier.signature = accepted[Len(accepted)].mac
    /\ verifier.remote_time = accepted[Len(accepted)].time

-----------------------------------------------------------------------------
(* The bounds of the range returned by verify_message_byte, under         *)
(* SpecVerify                                                             *)

\* C28: for a correctly signed message verify_message_byte returns Ok, and
\* the bounds of the range are time_signed - fudge and time_signed + fudge
\* computed without wrapping around, also when time_signed < fudge.
C28_BoundsWithoutWraparound ==
    (Verified /\ edits = {}) =>
        /\ out.res.kind = "Ok"
        /\ out.res.range.start >= 0
        /\ out.res.range.start = VTsig.time - VTsig.fudge
        /\ out.res.range.end = VTsig.time + VTsig.fudge

\* what verify_message_byte does keep of C28: the same, for every message
\* signed at a time not below the fudge
C28_BoundsWhenTimeNotBelowFudge ==
    (Verified /\ edits = {} /\ VTsig.time >= VTsig.fudge) =>
        /\ out.res.kind = "Ok"
        /\ out.res.range.start >= 0
        /\ out.res.range.start = VTsig.time - VTsig.fudge
        /\ out.res.range.end = VTsig.time + VTsig.fudge

-----------------------------------------------------------------------------
(* The key tag of one key in both forms, under SpecDnskey *)

\* C29: the key tag of the wire-form DNSKEY and the key tag of the
\* text-form DNSKEYRData of the same flags, algorithm and key, the key
\* written in Base64, are the same number, for every algorithm, 1 included.
C29_WireAndTextKeyTagAgree ==
    out.op = "key_tags" => out.text = [kind |-> "Ok", tag |-> out.wire]

\* what the two functions do keep of C29: the same, for every algorithm
\* but 1
C29_KeyTagsAgreeUnlessRsamd5 ==
    (out.op = "key_tags" /\ out.algorithm # 1) =>
        out.text = [kind |-> "Ok", tag |-> out.wire]

-----------------------------------------------------------------------------
(* RSA public key in the encoding of RFC 3110 (rsa_public_key.rs) *)

RSAPublicKey(n, e) == [kind |-> "Ok", n |-> n, e |-> e]

\* &encoded[start..] followed by split_at(mid): both panic when they would
\* reach behind the end of the slice
slice_split_at(encoded, start, mid) ==
    IF start > Len(encoded) \/ mid > Len(encoded) - start THEN Panic
    ELSE RSAPublicKey(SubSeq(encoded, start + mid + 1, Len(encoded)),
                      SubSeq(encoded, start + 1, start + mid))

\* the match on encoded.first(): the length of the length field and the
\* length of the exponent, or none
e_len_of(encoded) ==
    IF Len(encoded) >= 3 /\ encoded[1] = 0
    THEN Some([e_len_len |-> 3, e_len |-> encoded[2] * 256 + encoded[3]])
    ELSE IF Len(encoded) >= 1 /\ encoded[1] # 0
    THEN Some([e_len_len |-> 1, e_len |-> encoded[1]])
    ELSE None

\* mutant: the length of the input is not compared with the lengths read
RSAPublicKey_try_from_unchecked(encoded) ==
    LET l == e_len_of(encoded) IN
    IF ~l.some THEN Err("bad public key")
    ELSE slice_split_at(encoded, l.val.e_len_len, l.val.e_len)

\* RSAPublicKey::try_from
RSAPublicKey_try_from(encoded) ==
    LET l == e_len_of(encoded) IN
    IF ~l.some THEN Err("bad public key")
    ELSE IF Len(encoded) < l.val.e_len_len + l.val.e_len THEN Err("bad public key")
    ELSE slice_split_at(encoded, l.val.e_len_len, l.val.e_len)

-----------------------------------------------------------------------------
(* RSAPublicKey::try_from is called once, on bytes of the caller's choice *)

MaxEncoded == 6

\* short inputs over a few byte values, and inputs whose exponent is about
\* as long as one length byte can tell, or just longer
EncodedKeys ==
    SeqsUpTo(SomeBytes \cup {2}, MaxEncoded)
      \cup { <<255>> \o [i \in 1..n |-> 7] : n \in 254..256 }
      \cup { <<0, 1, 0>> \o [i \in 1..n |-> 7] : n \in 255..257 }
      \cup { <<0, 0, 255>> \o [i \in 1..n |-> 7] : n \in 254..256 }

TryFrom(encoded) ==
    /\ out = NoOut
    /\ out' = [op |-> "RSAPublicKey_try_from", encoded |-> encoded,
               res |-> RSAPublicKey_try_from(encoded)]
    /\ UNCHANGED tsig_vars

InitRsa == NoTsig

NextRsa ==
    /\ out = NoOut
    /\ \E encoded \in EncodedKeys : TryFrom(encoded)

SpecRsa == InitRsa /\ [][NextRsa]_vars

\* the length field that stands in front of an exponent of e_len bytes
\* when the first byte of the input is first
LengthPrefix(first, e_len) ==
    IF first # 0 THEN <<e_len>> ELSE <<0, e_len \div 256, e_len % 256>>

\* C30: try_from returns the bad public key error or (e, n) such that the
\* length field, e and n make up the input; it never reaches behind the
\* input; and it returns the error for the empty input, for a first byte
\* 0 with fewer than 3 bytes, and for an input shorter than the length
\* field and the exponent it announces.
C30_TryFromSplitsOrRefuses ==
    out.op = "RSAPublicKey_try_from" =>
        LET encoded == out.encoded
            res == out.res
        IN  /\ res.kind # "Panic"
            /\ res.kind = "Err" => res = Err("bad public key")
            /\ res.kind = "Ok" =>
                  /\ Len(res.e) < 65536
                  /\ LengthPrefix(encoded[1], Len(res.e)) \o res.e \o res.n = encoded
            /\ encoded = <<>> => res.kind = "Err"
            /\ (Len(encoded) \in 1..2 /\ encoded[1] = 0) => res.kind = "Err"
            /\ (Len(encoded) >= 1 /\ encoded[1] # 0 /\ Len(encoded) < 1 + encoded[1])
                  => res.kind = "Err"
            /\ (/\ Len(encoded) >= 3
                /\ encoded[1] = 0
                /\ Len(encoded) < 3 + encoded[2] * 256 + encoded[3])
                  => res.kind = "Err"

\* C30 witness: behind a length field of 3 bytes an exponent of 256 bytes
\* and a modulus of 1 byte were returned
C30_Witness ==
    /\ out.op = "RSAPublicKey_try_from"
    /\ out.res.kind = "Ok"
    /\ out.encoded[1] = 0
    /\ Len(out.res.e) = 256
    /\ Len(out.res.n) = 1

====
